---- MODULE Spec2Model ----
(***************************************************************************)
(* Bank statement analyzer: Document Processor (line parser and merchant   *)
(* categorizer), Content Analyzer (batched external classification with    *)
(* fallback), Analysis Generator and the coordinator that chains them.     *)
(*                                                                         *)
(* Python str values are TLA+ strings; character i of s is SubSeq(s,i,i).  *)
(* Confidences are in hundredths (0.95 is 95); money is in cents.          *)
(***************************************************************************)
EXTENDS Integers, Sequences, FiniteSets, TLC

(* ------------------------------ text ---------------------------------- *)

CharAt(s, i) == SubSeq(s, i, i)

UpperLetters == "ABCDEFGHIJKLMNOPQRSTUVWXYZ"

LowerLetters == "abcdefghijklmnopqrstuvwxyz"

DigitChars == {"0", "1", "2", "3", "4", "5", "6", "7", "8", "9"}

UpperChars == {CharAt(UpperLetters, i) : i \in 1..Len(UpperLetters)}

LowerChars == {CharAt(LowerLetters, i) : i \in 1..Len(LowerLetters)}

\* \d
IsDigit(c) == c \in DigitChars

\* [A-Za-z]
IsAlpha(c) == c \in UpperChars \cup LowerChars

\* \w
IsWord(c) == IsAlpha(c) \/ IsDigit(c) \/ c = "_"

\* \s
IsSpace(c) == c \in {" ", "\t"}

LowerOf == [c \in UpperChars |->
              CharAt(LowerLetters, CHOOSE i \in 1..Len(UpperLetters) : CharAt(UpperLetters, i) = c)]

RECURSIVE lower_from(_, _)
lower_from(s, i) ==
    IF i > Len(s) THEN ""
    ELSE (IF CharAt(s, i) \in UpperChars THEN LowerOf[CharAt(s, i)] ELSE CharAt(s, i))
         \o lower_from(s, i + 1)

\* str.lower()
lower(s) == lower_from(s, 1)

\* Length of the longest run of characters satisfying Cls that starts at i.
RECURSIVE RunLen(_, _, _)
RunLen(Cls(_), s, i) ==
    IF i <= Len(s) /\ Cls(CharAt(s, i)) THEN 1 + RunLen(Cls, s, i + 1) ELSE 0

RECURSIVE RunLenBack(_, _)
RunLenBack(s, i) ==
    IF i >= 1 /\ IsSpace(CharAt(s, i)) THEN 1 + RunLenBack(s, i - 1) ELSE 0

\* str.strip()
strip(s) ==
    LET a == RunLen(IsSpace, s, 1)
        b == RunLenBack(s, Len(s))
    IN  IF a >= Len(s) THEN "" ELSE SubSeq(s, a + 1, Len(s) - b)

\* re.sub(r'\s+', ' ', s)
RECURSIVE sub_spaces_from(_, _)
sub_spaces_from(s, i) ==
    IF i > Len(s) THEN ""
    ELSE IF IsSpace(CharAt(s, i))
         THEN " " \o sub_spaces_from(s, i + RunLen(IsSpace, s, i))
         ELSE CharAt(s, i) \o sub_spaces_from(s, i + 1)

sub_spaces(s) == sub_spaces_from(s, 1)

\* re.sub(r'[#*]\w*', '', s)
RECURSIVE sub_reference_codes_from(_, _)
sub_reference_codes_from(s, i) ==
    IF i > Len(s) THEN ""
    ELSE IF CharAt(s, i) \in {"#", "*"}
         THEN sub_reference_codes_from(s, i + 1 + RunLen(IsWord, s, i + 1))
         ELSE CharAt(s, i) \o sub_reference_codes_from(s, i + 1)

sub_reference_codes(s) == sub_reference_codes_from(s, 1)

\* re.sub(r'\d{4,}', '', s)
RECURSIVE sub_long_numbers_from(_, _)
\* s from i on, where a run of n digits starts at i.
drop_long_run(s, i, n) ==
    IF n >= 4 THEN sub_long_numbers_from(s, i + n)
    ELSE IF n >= 1 THEN SubSeq(s, i, i + n - 1) \o sub_long_numbers_from(s, i + n)
    ELSE CharAt(s, i) \o sub_long_numbers_from(s, i + 1)

sub_long_numbers_from(s, i) ==
    IF i > Len(s) THEN "" ELSE drop_long_run(s, i, RunLen(IsDigit, s, i))

sub_long_numbers(s) == sub_long_numbers_from(s, 1)

\* Python's `k in s` for strings.
Contains(k, s) == \E i \in 1..(Len(s) - Len(k) + 1) : SubSeq(s, i, i + Len(k) - 1) = k

(* ----------------------- MerchantDatabase ------------------------------ *)

merchant_keywords == <<
    [category |-> "food_dining", keywords |-> <<
        "starbucks", "dunkin", "dunkin donuts", "coffee", "cafe", "mcdonalds",
        "burger king", "subway", "kfc", "taco bell", "chipotle", "panera",
        "panda express", "pizza hut", "dominos", "restaurant", "bistro", "grill",
        "kitchen", "diner", "eatery", "food truck", "catering", "bakery", "uber eats",
        "doordash", "grubhub", "postmates", "food delivery" >>],
    [category |-> "groceries", keywords |-> <<
        "walmart", "target", "costco", "sams club", "sam's club", "kroger", "safeway",
        "publix", "wegmans", "giant", "stop shop", "whole foods", "trader joe", "aldi",
        "food lion", "harris teeter", "market", "grocery", "supermarket",
        "supercenter", "food store" >>],
    [category |-> "transportation", keywords |-> <<
        "shell", "exxon", "chevron", "bp", "mobil", "citgo", "arco", "gas station",
        "fuel", "gasoline", "petrol", "uber", "lyft", "taxi", "cab", "rideshare",
        "metro", "mta", "transit", "bus", "train", "subway", "parking", "garage",
        "meter", "airline", "airport", "flight", "car rental", "hertz", "enterprise" >>],
    [category |-> "shopping", keywords |-> <<
        "amazon", "ebay", "etsy", "best buy", "apple store", "microsoft", "home depot",
        "lowes", "macys", "kohls", "tj maxx", "marshalls", "ross", "old navy", "gap",
        "nike", "adidas", "mall", "outlet" >>],
    [category |-> "bills_utilities", keywords |-> <<
        "electric", "power", "energy", "utility", "water", "sewer", "gas bill",
        "internet", "cable", "phone", "wireless", "verizon", "att", "at&t", "comcast",
        "spectrum", "xfinity", "municipal", "city of", "county of" >>],
    [category |-> "entertainment", keywords |-> <<
        "netflix", "spotify", "hulu", "disney", "amazon prime", "apple music",
        "youtube", "gaming", "steam", "playstation", "xbox", "nintendo", "movie",
        "theater", "cinema", "concert" >>],
    [category |-> "healthcare", keywords |-> <<
        "cvs", "walgreens", "rite aid", "pharmacy", "medical", "doctor", "dentist",
        "hospital", "clinic", "health" >>],
    [category |-> "atm_cash", keywords |-> <<
        "atm", "withdrawal", "cash advance", "cash back", "cashout" >>],
    [category |-> "income", keywords |-> <<
        "direct deposit", "salary", "payroll", "interest", "dividend", "refund",
        "tax refund", "deposit", "credit" >>],
    [category |-> "fees", keywords |-> <<
        "fee", "charge", "penalty", "overdraft", "maintenance", "service charge",
        "foreign", "atm fee" >>] >>


\* MerchantDatabase._clean_description_for_matching
_clean_description_for_matching(description) ==
    strip(sub_spaces(sub_long_numbers(sub_reference_codes(description))))

\* A plausible slip: the tiers looked up in the description, not the keyword.
confidence_by_description(matched_keyword, description) ==
    IF \E b \in {"starbucks", "walmart", "amazon", "netflix"} : Contains(b, description)
    THEN 95
    ELSE IF \E b \in {"gas station", "grocery", "pharmacy"} : Contains(b, description)
    THEN 90
    ELSE IF \E b \in {"restaurant", "cafe", "market"} : Contains(b, description)
    THEN 75
    ELSE 80

\* MerchantDatabase._calculate_confidence
_calculate_confidence(matched_keyword, description) ==
    IF matched_keyword \in {"starbucks", "walmart", "amazon", "netflix"} THEN 95
    ELSE IF matched_keyword \in {"gas station", "grocery", "pharmacy"} THEN 90
    ELSE IF matched_keyword \in {"restaurant", "cafe", "market"} THEN 75
    ELSE 80

\* The inner loop of categorize_transaction: index of the first keyword of the
\* list, from position i on, that is a substring of desc_clean; 0 if none is.
RECURSIVE first_keyword(_, _, _)
first_keyword(keywords, i, desc_clean) ==
    IF i > Len(keywords) THEN 0
    ELSE IF Contains(keywords[i], desc_clean) THEN i
    ELSE first_keyword(keywords, i + 1, desc_clean)

\* The outer loop of categorize_transaction, from category c on; k is the
\* index of the first matching keyword of category c, or 0.
RECURSIVE categorize_from(_, _)
category_match(c, k, desc_clean) ==
    IF k > 0
    THEN <<merchant_keywords[c].category,
           _calculate_confidence(merchant_keywords[c].keywords[k], desc_clean)>>
    ELSE categorize_from(c + 1, desc_clean)

categorize_from(c, desc_clean) ==
    IF c > Len(merchant_keywords) THEN <<"uncategorized", 0>>
    ELSE category_match(c, first_keyword(merchant_keywords[c].keywords, 1, desc_clean),
                        desc_clean)

\* MerchantDatabase.categorize_transaction: <<category, confidence>>
categorize_transaction(description) ==
    categorize_from(1, _clean_description_for_matching(strip(lower(description))))

(* ----------------- regular expressions of the parser ------------------- *)
(* Each format pattern is a concatenation of quantified character classes. *)
(* An element is [cls, min, max, greedy]; max = -1 means unbounded.        *)
(* match_here explores counts in the order a backtracking matcher (re)     *)
(* does: greedy elements longest first, lazy elements shortest first.      *)

InClass(cls, c) ==
    CASE cls = "digit"       -> IsDigit(c)                                \* \d
      [] cls = "slash"       -> c = "/"
      [] cls = "dash"        -> c = "-"
      [] cls = "space"       -> IsSpace(c)                                \* \s
      [] cls = "desc"        -> c \notin {"-", "+", "$"} /\ ~IsDigit(c)   \* [^-+$\d]
      [] cls = "desc_wf"     -> c # "$" /\ ~IsDigit(c)                    \* [^$\d]
      [] cls = "sign"        -> c \in {"-", "+"}                          \* [-+]
      [] cls = "dollar"      -> c = "$"                                   \* \$
      [] cls = "digit_comma" -> IsDigit(c) \/ c = ","                     \* [\d,]
      [] cls = "dot"         -> c = "."                                   \* \.
      [] cls = "alpha"       -> IsAlpha(c)                                \* [A-Za-z]

Rep(cls, lo, hi) == [cls |-> cls, min |-> lo, max |-> hi, greedy |-> TRUE]

One(cls) == Rep(cls, 1, 1)

Opt(cls) == Rep(cls, 0, 1)

Plus(cls) == Rep(cls, 1, -1)

Star(cls) == Rep(cls, 0, -1)

LazyPlus(cls) == [cls |-> cls, min |-> 1, max |-> -1, greedy |-> FALSE]

LazyStar(cls) == [cls |-> cls, min |-> 0, max |-> -1, greedy |-> FALSE]

\* How many characters from pos on are in cls, at most max of them.
RECURSIVE class_run(_, _, _, _)
class_run(cls, s, pos, max) ==
    IF max # 0 /\ pos <= Len(s) /\ InClass(cls, CharAt(s, pos))
    THEN 1 + class_run(cls, s, pos + 1, max - 1)
    ELSE 0

\* Match elements e.. of regex at position pos of s: <<>> on failure, else the
\* start position of every element from e on, followed by the end of the match.
\* n is the longest run element e can take at pos, c the count being tried,
\* rest the match of the elements after e.
RECURSIVE match_here(_, _, _, _)
RECURSIVE try_count(_, _, _, _, _, _)
keep_or_retry(regex, s, e, pos, c, n, rest) ==
    IF rest # <<>> THEN <<pos>> \o rest
    ELSE IF regex[e].greedy
         THEN (IF c > regex[e].min THEN try_count(regex, s, e, pos, c - 1, n) ELSE <<>>)
         ELSE (IF c < n THEN try_count(regex, s, e, pos, c + 1, n) ELSE <<>>)

try_count(regex, s, e, pos, c, n) ==
    keep_or_retry(regex, s, e, pos, c, n, match_here(regex, s, e + 1, pos + c))

first_count(regex, s, e, pos, n) ==
    IF n < regex[e].min THEN <<>>
    ELSE try_count(regex, s, e, pos, IF regex[e].greedy THEN n ELSE regex[e].min, n)

match_here(regex, s, e, pos) ==
    IF e > Len(regex) THEN <<pos>>
    ELSE first_count(regex, s, e, pos, class_run(regex[e].cls, s, pos, regex[e].max))

\* re.search: the match at the leftmost start position that has one.
RECURSIVE search_from(_, _, _)
match_or_advance(regex, s, start, m) ==
    IF m # <<>> THEN m ELSE search_from(regex, s, start + 1)

search_from(regex, s, start) ==
    IF start > Len(s) + 1 THEN <<>>
    ELSE match_or_advance(regex, s, start, match_here(regex, s, 1, start))

re_search(regex, s) == search_from(regex, s, 1)

\* match.groups()[g]: the text of the elements rng[1]..rng[2] in match m.
GroupText(m, rng, s) == SubSeq(s, m[rng[1]], m[rng[2] + 1] - 1)

\* (\d{1,2}/\d{1,2}/\d{4})
DateSlash == <<Rep("digit", 1, 2), One("slash"), Rep("digit", 1, 2), One("slash"),
               Rep("digit", 4, 4)>>

\* (\d{1,2}-\d{1,2}-\d{4})
DateDash == <<Rep("digit", 1, 2), One("dash"), Rep("digit", 1, 2), One("dash"),
              Rep("digit", 4, 4)>>

\* \s+([-+]?\$?[\d,]+\.?\d*)\s+\$?([\d,]+\.?\d*)
SignedAmountBalance ==
    <<Plus("space"), Opt("sign"), Opt("dollar"), Plus("digit_comma"), Opt("dot"),
      Star("digit"), Plus("space"), Opt("dollar"), Plus("digit_comma"), Opt("dot"),
      Star("digit")>>

\* \s+\$?([\d,]+\.?\d*)\s+\$?([\d,]+\.?\d*)
AmountBalance ==
    <<Plus("space"), Opt("dollar"), Plus("digit_comma"), Opt("dot"), Star("digit"),
      Plus("space"), Opt("dollar"), Plus("digit_comma"), Opt("dot"), Star("digit")>>

\* The patterns list of _parse_single_transaction, in its order. groups gives,
\* for each field, the first and last element of its capture group.
patterns == <<
    [regex  |-> DateSlash \o <<Plus("space"), LazyPlus("desc")>> \o SignedAmountBalance,
     groups |-> [date |-> <<1, 5>>, description |-> <<7, 7>>, amount |-> <<9, 13>>,
                 balance |-> <<16, 18>>],
     name   |-> "Chase Format"],
    [regex  |-> DateDash \o <<Plus("space"), LazyPlus("desc_wf")>> \o AmountBalance,
     groups |-> [date |-> <<1, 5>>, description |-> <<7, 7>>, amount |-> <<10, 12>>,
                 balance |-> <<15, 17>>],
     name   |-> "Wells Fargo Format"],
    [regex  |-> DateSlash \o <<Plus("space"), One("alpha"), LazyStar("desc")>>
                \o SignedAmountBalance,
     groups |-> [date |-> <<1, 5>>, description |-> <<7, 8>>, amount |-> <<10, 14>>,
                 balance |-> <<17, 19>>],
     name   |-> "Generic Format"] >>

(* ------------------------ numbers and dates ---------------------------- *)

DigitString == "0123456789"

DigitValue(c) == (CHOOSE i \in 1..10 : CharAt(DigitString, i) = c) - 1

\* int() of a string of decimal digits ("" counts as 0).
RECURSIVE StrToNat(_)
StrToNat(s) ==
    IF Len(s) = 0 THEN 0
    ELSE 10 * StrToNat(SubSeq(s, 1, Len(s) - 1)) + DigitValue(CharAt(s, Len(s)))

\* str() of a natural number.
RECURSIVE NatToStr(_)
NatToStr(n) ==
    IF n < 10 THEN CharAt(DigitString, n + 1)
    ELSE NatToStr(n \div 10) \o CharAt(DigitString, (n % 10) + 1)

RECURSIVE ZeroPad(_, _)
ZeroPad(t, width) == IF Len(t) >= width THEN t ELSE ZeroPad("0" \o t, width)

\* re.sub(r'[$,]', '', s)
RECURSIVE sub_dollar_comma_from(_, _)
sub_dollar_comma_from(s, i) ==
    IF i > Len(s) THEN ""
    ELSE (IF CharAt(s, i) \in {"$", ","} THEN "" ELSE CharAt(s, i))
         \o sub_dollar_comma_from(s, i + 1)

Abs(v) == IF v < 0 THEN -v ELSE v

\* float(clean) in cents, for the strings the amount groups can hold: an
\* optional sign, digits and at most one point. FloatFails is the
\* ValueError case. Fractions are read to two places (the lines of the model
\* carry at most two).
FloatSign(clean) == IF Len(clean) > 0 /\ CharAt(clean, 1) \in {"-", "+"} THEN 1 ELSE 0

FloatInt(clean) ==
    SubSeq(clean, FloatSign(clean) + 1,
           FloatSign(clean) + RunLen(IsDigit, clean, FloatSign(clean) + 1))

FloatHasPoint(clean) ==
    LET p == FloatSign(clean) + Len(FloatInt(clean)) + 1
    IN  p <= Len(clean) /\ CharAt(clean, p) = "."

FloatFrac(clean) ==
    LET p == FloatSign(clean) + Len(FloatInt(clean)) + (IF FloatHasPoint(clean) THEN 2 ELSE 1)
    IN  SubSeq(clean, p, p + RunLen(IsDigit, clean, p) - 1)

FloatFails(clean) ==
    \/ Len(FloatInt(clean)) + Len(FloatFrac(clean)) = 0
    \/ FloatSign(clean) + Len(FloatInt(clean)) + (IF FloatHasPoint(clean) THEN 1 ELSE 0)
         + Len(FloatFrac(clean)) # Len(clean)

FloatCents(clean) ==
    LET frac2 == SubSeq(FloatFrac(clean) \o "00", 1, 2)
        mag   == 100 * StrToNat(FloatInt(clean)) + StrToNat(frac2)
    IN  IF FloatSign(clean) = 1 /\ CharAt(clean, 1) = "-" THEN -mag ELSE mag

\* DocumentProcessorAgent._parse_amount
_parse_amount(amount_str) ==
    LET clean_amount == sub_dollar_comma_from(amount_str, 1)
    IN  IF FloatFails(clean_amount) THEN 0 ELSE FloatCents(clean_amount)

IsLeap(y) == y % 4 = 0 /\ (y % 100 # 0 \/ y % 400 = 0)

DaysInMonth(y, m) ==
    IF m = 2 THEN (IF IsLeap(y) THEN 29 ELSE 28)
    ELSE IF m \in {4, 6, 9, 11} THEN 30 ELSE 31

MonthAbbr == <<"jan", "feb", "mar", "apr", "may", "jun", "jul", "aug", "sep", "oct",
               "nov", "dec">>

NoDate == [year |-> 0, month |-> 0, day |-> 0]

\* The three fields of a date string split at sep: <<>> unless the string is
\* field sep field sep field with no sep inside a field.
SplitDate(date_str, sep) ==
    LET NotSep(c) == c # sep
        a == RunLen(NotSep, date_str, 1)
        b == RunLen(NotSep, date_str, a + 2)
        c == RunLen(NotSep, date_str, a + b + 3)
    IN  IF a + b + c + 2 = Len(date_str)
           /\ CharAt(date_str, a + 1) = sep /\ CharAt(date_str, a + b + 2) = sep
        THEN <<SubSeq(date_str, 1, a), SubSeq(date_str, a + 2, a + b + 1),
               SubSeq(date_str, a + b + 3, Len(date_str))>>
        ELSE <<>>

AllDigits(t) == RunLen(IsDigit, t, 1) = Len(t)

\* %m and %d take one or two digits, %Y exactly four; %b a month abbreviation.
FieldValue(directive, t) ==
    CASE directive = "m" ->
           IF AllDigits(t) /\ Len(t) \in {1, 2} /\ StrToNat(t) \in 1..12 THEN StrToNat(t) ELSE 0
      [] directive = "d" ->
           IF AllDigits(t) /\ Len(t) \in {1, 2} /\ StrToNat(t) \in 1..31 THEN StrToNat(t) ELSE 0
      [] directive = "Y" ->
           IF AllDigits(t) /\ Len(t) = 4 /\ StrToNat(t) >= 1 THEN StrToNat(t) ELSE 0
      [] directive = "b" ->
           IF \E i \in 1..12 : MonthAbbr[i] = lower(t)
           THEN CHOOSE i \in 1..12 : MonthAbbr[i] = lower(t) ELSE 0

\* datetime.strptime(date_str, fmt) for a format of three directives joined by
\* sep; NoDate stands for ValueError.
strptime(date_str, directives, sep) ==
    LET parts == SplitDate(date_str, sep)
    IN  IF parts = <<>> THEN NoDate
        ELSE LET v == [i \in 1..3 |-> FieldValue(directives[i], parts[i])]
                 pos(dv) == CHOOSE i \in 1..3 : directives[i] = dv
                 y == v[pos("Y")]
                 m == IF \E i \in 1..3 : directives[i] = "m" THEN v[pos("m")] ELSE v[pos("b")]
                 d == v[pos("d")]
             IN  IF y = 0 \/ m = 0 \/ d = 0 \/ d > DaysInMonth(y, m) THEN NoDate
                 ELSE [year |-> y, month |-> m, day |-> d]

\* date_formats of _parse_date, in its order.
date_formats == <<
    [directives |-> <<"m", "d", "Y">>, sep |-> "/"],     \* %m/%d/%Y
    [directives |-> <<"m", "d", "Y">>, sep |-> "-"],     \* %m-%d-%Y
    [directives |-> <<"Y", "m", "d">>, sep |-> "-"],     \* %Y-%m-%d
    [directives |-> <<"d", "b", "Y">>, sep |-> "-"] >>   \* %d-%b-%Y

RECURSIVE parse_date_from(_, _, _)
first_date(d, date_str, f, now) ==
    IF d # NoDate THEN d ELSE parse_date_from(date_str, f + 1, now)

parse_date_from(date_str, f, now) ==
    IF f > Len(date_formats) THEN now
    ELSE first_date(strptime(date_str, date_formats[f].directives, date_formats[f].sep),
                    date_str, f, now)

\* DocumentProcessorAgent._parse_date; now is datetime.now() of the fallback.
_parse_date(date_str, now) == parse_date_from(date_str, 1, now)

\* parsed_date.strftime('%Y-%m-%d'). The C library decides whether %Y pads a
\* year below 1000 to four digits: year_padded is that choice.
strftime(date, year_padded) ==
    (IF year_padded THEN ZeroPad(NatToStr(date.year), 4) ELSE NatToStr(date.year))
    \o "-" \o ZeroPad(NatToStr(date.month), 2) \o "-" \o ZeroPad(NatToStr(date.day), 2)

(* ---------------------- DocumentProcessorAgent ------------------------- *)

StartsWith(s, prefix) == Len(s) >= Len(prefix) /\ SubSeq(s, 1, Len(prefix)) = prefix

\* skip_patterns of _is_header_or_footer: the alternatives anchored at ^.
skip_prefixes == {
    "account", "statement", "balance", "date", "description", "amount",
    "statement period", "issue date",
    "previous balance", "ending balance", "current balance",
    "note:", "total", "summary",
    "paid in", "paid out", "detail", "payment type" }

\* DocumentProcessorAgent._is_header_or_footer
_is_header_or_footer(line) ==
    LET line_lower == lower(line)
        IsDash(c) == c = "-"
        IsEq(c) == c = "="
    IN  \/ \E w \in skip_prefixes : StartsWith(line_lower, w)
        \/ StartsWith(line_lower, "page ") /\ RunLen(IsDigit, line_lower, 6) >= 1  \* ^(page \d+
        \/ RunLen(IsSpace, line_lower, 1) = Len(line_lower)                        \* ^\s*$
        \/ Len(line_lower) >= 1 /\ RunLen(IsDash, line_lower, 1) = Len(line_lower) \* ^-+$
        \/ Len(line_lower) >= 1 /\ RunLen(IsEq, line_lower, 1) = Len(line_lower)   \* ^=+$

\* \d{1,2}[/-]\d{1,2}[/-]\d{4}
DateLike(sep1, sep2) ==
    <<Rep("digit", 1, 2), One(sep1), Rep("digit", 1, 2), One(sep2), Rep("digit", 4, 4)>>

\* DocumentProcessorAgent._looks_like_transaction
_looks_like_transaction(line) ==
    LET has_date == \E a, b \in {"slash", "dash"} : re_search(DateLike(a, b), line) # <<>>
        has_amount == re_search(<<Opt("dollar"), Plus("digit_comma"), Opt("dot"),
                                  Star("digit")>>, line) # <<>>
        has_description == re_search(<<Rep("alpha", 3, -1)>>, line) # <<>>
    IN  has_date /\ has_amount /\ has_description

\* A plausible slip: the header and footer signatures are not consulted.
keeps_headers(line) == line # "" /\ _looks_like_transaction(line)

\* The body of the loop of _find_transaction_lines for one stripped line.
keeps_line(line) ==
    line # "" /\ ~_is_header_or_footer(line) /\ _looks_like_transaction(line)

\* DocumentProcessorAgent._find_transaction_lines, on text.split('\n').
_find_transaction_lines(lines) ==
    SelectSeq([i \in 1..Len(lines) |-> strip(lines[i])], keeps_line)

debit_keywords == <<"withdrawal", "purchase", "payment", "fee", "charge">>

credit_keywords == <<"deposit", "interest", "refund", "credit", "salary">>

\* A plausible slip: the credit keywords looked for before the debit keywords.
credit_keywords_first(amount_str, line) ==
    IF StartsWith(amount_str, "-") \/ StartsWith(amount_str, "+")
    THEN StartsWith(amount_str, "-")
    ELSE IF \E i \in 1..Len(credit_keywords) : Contains(credit_keywords[i], lower(line))
    THEN FALSE
    ELSE TRUE

\* DocumentProcessorAgent._is_debit_transaction
_is_debit_transaction(amount_str, line) ==
    IF StartsWith(amount_str, "-") \/ StartsWith(amount_str, "+")
    THEN StartsWith(amount_str, "-")
    ELSE LET line_lower == lower(line)
         IN  IF \E i \in 1..Len(debit_keywords) : Contains(debit_keywords[i], line_lower)
             THEN TRUE
             ELSE IF \E i \in 1..Len(credit_keywords) : Contains(credit_keywords[i], line_lower)
             THEN FALSE
             ELSE TRUE

\* A key the dict does not have yet ('transaction_id' before the parser numbers
\* the transaction, 'reasoning' before the Content Analyzer sets it).
NoKey == "<no key>"

\* A plausible slip: the parsed amount stored with its sign.
signed_amount(amount) == amount

\* 'amount': abs(amount) of the dict _extract_transaction_data returns.
positive_amount(amount) == Abs(amount)

\* The dict _extract_transaction_data returns, from the texts of the groups.
transaction_dict(date_str, description, amount_str, balance_str, pattern_name, original_line, now, year_padded) ==
    [date           |-> strftime(_parse_date(date_str, now), year_padded),
     description    |-> strip(sub_reference_codes(sub_spaces(strip(description)))),
     amount         |-> positive_amount(_parse_amount(amount_str)),
     is_debit       |-> _is_debit_transaction(amount_str, original_line),
     balance        |-> _parse_amount(balance_str),
     category       |-> "uncategorized",
     confidence     |-> 0,
     source         |-> "deterministic",
     original_line  |-> original_line,
     pattern_used   |-> pattern_name,
     transaction_id |-> NoKey,
     reasoning      |-> NoKey]

\* DocumentProcessorAgent._extract_transaction_data, for the match m of pattern
\* on original_line.
_extract_transaction_data(m, pattern, original_line, now, year_padded) ==
    transaction_dict(GroupText(m, pattern.groups.date, original_line),
                     GroupText(m, pattern.groups.description, original_line),
                     GroupText(m, pattern.groups.amount, original_line),
                     GroupText(m, pattern.groups.balance, original_line),
                     pattern.name, original_line, now, year_padded)

\* The value None, where a dict is expected.
None == [none |-> TRUE]

\* The loop of _parse_single_transaction, from pattern p on; m is the match
\* of pattern p.
RECURSIVE parse_single_from(_, _, _, _)
\* A plausible slip: the last pattern that matches wins.
extract_or_later(p, m, line, now, year_padded) ==
    IF parse_single_from(p + 1, line, now, year_padded) # None
    THEN parse_single_from(p + 1, line, now, year_padded)
    ELSE IF m # <<>> THEN _extract_transaction_data(m, patterns[p], line, now, year_padded)
    ELSE None

extract_or_next(p, m, line, now, year_padded) ==
    IF m # <<>> THEN _extract_transaction_data(m, patterns[p], line, now, year_padded)
    ELSE parse_single_from(p + 1, line, now, year_padded)

parse_single_from(p, line, now, year_padded) ==
    IF p > Len(patterns) THEN None
    ELSE extract_or_next(p, re_search(patterns[p].regex, line), line, now, year_padded)

\* DocumentProcessorAgent._parse_single_transaction
_parse_single_transaction(line, now, year_padded) ==
    parse_single_from(1, line, now, year_padded)

\* A plausible slip: the first line that does not parse ends the parsing.
stops_at_first_failure(transaction_lines, now, year_padded) ==
    LET parsed == [i \in 1..Len(transaction_lines) |->
                      _parse_single_transaction(transaction_lines[i], now, year_padded)]
        failed == {i \in 1..Len(transaction_lines) : parsed[i] = None}
        last   == IF failed = {} THEN Len(transaction_lines)
                  ELSE (CHOOSE i \in failed : \A j \in failed : i <= j) - 1
    IN  [k \in 1..last |-> [parsed[k] EXCEPT !.transaction_id = "txn_" \o NatToStr(k)]]

\* A plausible slip: a transaction numbered by the position of its line.
numbered_by_line(transaction_lines, now, year_padded) ==
    SelectSeq([i \in 1..Len(transaction_lines) |->
                  LET p == _parse_single_transaction(transaction_lines[i], now, year_padded)
                  IN  IF p = None THEN None
                      ELSE [p EXCEPT !.transaction_id = "txn_" \o NatToStr(i)]],
              LAMBDA p : p # None)

\* The transaction_id _parse_transaction_lines gives the k-th transaction it
\* appends: f"txn_{len(parsed_transactions)+1}".
number_parsed(parsed) ==
    [k \in 1..Len(parsed) |-> [parsed[k] EXCEPT !.transaction_id = "txn_" \o NatToStr(k)]]

\* DocumentProcessorAgent._parse_transaction_lines: the lines that parse, in
\* order, numbered as they are appended.
_parse_transaction_lines(transaction_lines, now, year_padded) ==
    number_parsed(
        SelectSeq([i \in 1..Len(transaction_lines) |->
                      _parse_single_transaction(transaction_lines[i], now, year_padded)],
                  LAMBDA p : p # None))

\* A plausible slip: the result is stored even when it is 'uncategorized'.
categorize_always(txn, r) ==
    [txn EXCEPT !.category = r[1], !.confidence = r[2], !.source = "deterministic"]

\* The body of the loop of _apply_basic_categorization; r is what
\* categorize_transaction returned for txn.
categorize_in_place(txn, r) ==
    IF r[1] # "uncategorized"
    THEN [txn EXCEPT !.category = r[1], !.confidence = r[2], !.source = "deterministic"]
    ELSE txn

\* DocumentProcessorAgent._apply_basic_categorization
_apply_basic_categorization(txns) ==
    [i \in 1..Len(txns) |->
        categorize_in_place(txns[i], categorize_transaction(txns[i].description))]

Uncategorized(txns) == SelectSeq(txns, LAMBDA t : t.category = "uncategorized")

Categorized(txns) == SelectSeq(txns, LAMBDA t : t.category # "uncategorized")

\* raw_text.strip() is empty: the text (its lines joined by '\n') is blank.
BlankText(lines) == \A i \in 1..Len(lines) : strip(lines[i]) = ""

\* The dict DocumentProcessorAgent.process returns once lines were found. A
\* result is a record of the keys its dict has.
process_result(transaction_lines, parsed_transactions, categorized_transactions) ==
    [success |-> TRUE,
     transactions |-> categorized_transactions,
     total_transactions |-> Len(categorized_transactions),
     parsing_stats |->
       [lines_found |-> Len(transaction_lines),
        successfully_parsed |-> Len(parsed_transactions),
        parse_success_rate |-> <<Len(parsed_transactions), Len(transaction_lines)>>,
        categorized_deterministically |-> Len(Categorized(categorized_transactions)),
        needs_llm |-> Len(Uncategorized(categorized_transactions))]]

process_parsed(transaction_lines, parsed_transactions) ==
    process_result(transaction_lines, parsed_transactions,
                   _apply_basic_categorization(parsed_transactions))

process_lines(transaction_lines, now, year_padded) ==
    IF transaction_lines = <<>>
    THEN [success |-> TRUE, transactions |-> <<>>,
          message |-> "No transaction lines found - might need different parsing approach"]
    ELSE process_parsed(transaction_lines,
                        _parse_transaction_lines(transaction_lines, now, year_padded))

\* A plausible slip: the test for blank text is left out.
process_without_blank_check(doc, now, year_padded) ==
    IF ~doc.open_ok
    THEN [success |-> FALSE, error |-> "cannot open PDF", transactions |-> <<>>]
    ELSE process_lines(_find_transaction_lines(doc.lines), now, year_padded)

\* DocumentProcessorAgent.process. A document is [file, open_ok, lines]: lines
\* is the text _extract_text_from_pdf returns, split at '\n'; open_ok is FALSE
\* when pdfplumber.open raises.
DocumentProcessorAgent_process(doc, now, year_padded) ==
    IF ~doc.open_ok
    THEN [success |-> FALSE, error |-> "cannot open PDF", transactions |-> <<>>]
    ELSE IF BlankText(doc.lines)
    THEN [success |-> FALSE, error |-> "No text in PDF", transactions |-> <<>>]
    ELSE process_lines(_find_transaction_lines(doc.lines), now, year_padded)

(* --------------------------- text extraction --------------------------- *)
(* A page is [tables, page_text, chars]: what page.extract_tables(),       *)
(* page.extract_text() and page.chars give. A table is a sequence of rows, *)
(* a row a sequence of cells; a cell that is None is "", like page_text.   *)

\* '\t'.join(str(cell).strip() if cell else '' for cell in row), from cell c on.
RECURSIVE join_cells(_, _)
join_cells(row, c) ==
    IF c > Len(row) THEN ""
    ELSE (IF c > 1 THEN "\t" ELSE "") \o strip(row[c]) \o join_cells(row, c + 1)

\* The rows of a table, from row r on (row_num = r - 1): blank rows are skipped.
RECURSIVE table_rows(_, _)
table_rows(table, r) ==
    IF r > Len(table) THEN ""
    ELSE (IF \E c \in 1..Len(table[r]) : strip(table[r][c]) # ""
          THEN "ROW_" \o NatToStr(r - 1) \o ": " \o join_cells(table[r], 1) \o "\n"
          ELSE "")
         \o table_rows(table, r + 1)

\* Method 1: the tables of page page_num, from table t on.
RECURSIVE page_tables(_, _, _)
page_tables(page, page_num, t) ==
    IF t > Len(page.tables) THEN ""
    ELSE "\n--- PAGE " \o NatToStr(page_num) \o " TABLE " \o NatToStr(t) \o " ---\n"
         \o table_rows(page.tables[t], 1)
         \o "--- END TABLE " \o NatToStr(t) \o " ---\n"
         \o page_tables(page, page_num, t + 1)

\* Method 2: the positional text of page page_num.
page_text_block(page, page_num) ==
    IF page.page_text # ""
    THEN "\n--- PAGE " \o NatToStr(page_num) \o " TEXT ---\n" \o page.page_text
         \o "\n--- END PAGE " \o NatToStr(page_num) \o " TEXT ---\n"
    ELSE ""

\* chars[:CharsLimit]
CharsLimit == 100

RECURSIVE chars_text(_, _)
chars_text(chars, i) ==
    IF i > Len(chars) \/ i > CharsLimit THEN "" ELSE chars[i] \o chars_text(chars, i + 1)

\* Method 3: the character-level text of page page_num.
page_chars_block(page, page_num) ==
    IF page.tables = <<>> /\ page.page_text = "" /\ page.chars # <<>>
    THEN "\n--- PAGE " \o NatToStr(page_num) \o " CHARS ---\n" \o chars_text(page.chars, 1)
         \o "\n--- END CHARS ---\n"
    ELSE ""

\* What the loop body of _extract_text_from_pdf adds to full_text for one page.
page_content(page, page_num) ==
    page_tables(page, page_num, 1) \o page_text_block(page, page_num)
    \o page_chars_block(page, page_num)

\* DocumentProcessorAgent._extract_text_from_pdf, from page page_num on.
RECURSIVE extract_from(_, _)
extract_from(pages, page_num) ==
    IF page_num > Len(pages) THEN ""
    ELSE page_content(pages[page_num], page_num) \o extract_from(pages, page_num + 1)

_extract_text_from_pdf(pages) == extract_from(pages, 1)

(* ------------------------ ContentAnalyzerAgent ------------------------- *)

\* The keys of ContentAnalyzerAgent.valid_categories.
valid_categories == {"food_dining", "groceries", "transportation", "shopping",
                     "bills_utilities", "entertainment", "healthcare", "income",
                     "fees", "other"}

\* What LLMInterface.make_call can meet. kind is
\*   "api_error":  messages.create raises (make_call returns None);
\*   "no_content": the reply has no content block (IndexError, returns None);
\*   "text":       a reply whose text is body.
\* A body is [json, categorizations]: json = "invalid" is text json.loads
\* rejects, "malformed" is JSON that is no object with a list of complete
\* entries under categorizations, "empty" is the empty string, "object" is
\* an object whose categorizations are the given entries.
make_call_returns_text(reply) == reply.kind = "text"

\* TransactionCategory: the pydantic model of one entry accepts it. Only
\* confidence is constrained (Field(ge=0, le=1), in hundredths here);
\* category is any str.
TransactionCategory_valid(entry) == entry.confidence >= 0 /\ entry.confidence <= 100

\* A plausible slip: the entries of the response are not validated.
entries_unvalidated(body) == body.json = "object"

\* BatchCategorizationResponse(**json.loads(response)) does not raise.
BatchCategorizationResponse_valid(body) ==
    /\ body.json = "object"
    /\ \A i \in 1..Len(body.categorizations) :
           TransactionCategory_valid(body.categorizations[i])

\* cat_lookup[txn_id] of _apply_llm_categorization: a dict built in list order
\* keeps the last entry of each id.
cat_lookup(categorizations, txn_id) ==
    LET hits == {j \in 1..Len(categorizations) : categorizations[j].transaction_id = txn_id}
    IN  IF hits = {} THEN None
        ELSE categorizations[CHOOSE j \in hits : \A k \in hits : k <= j]

\* A plausible slip: the transaction looked up under its own transaction_id.
own_transaction_id(txns, i) == txns[i].transaction_id

\* The identifier the i-th transaction of the batch (i from 1 here) is sent
\* and looked up under: f"txn_{i}" with i from 0.
batch_id(txns, i) == "txn_" \o NatToStr(i - 1)

\* ContentAnalyzerAgent._apply_llm_categorization
_apply_llm_categorization(txns, categorizations) ==
    [i \in 1..Len(txns) |->
        LET cat == cat_lookup(categorizations, batch_id(txns, i))
        IN  IF cat # None
            THEN [txns[i] EXCEPT !.category = cat.category, !.confidence = cat.confidence,
                                 !.source = "llm", !.reasoning = cat.reasoning]
            ELSE [txns[i] EXCEPT !.category = "other", !.confidence = 50,
                                 !.source = "fallback",
                                 !.reasoning = "LLM response incomplete"]]

\* A plausible slip: the default leaves the confidence as it was.
fallback_without_confidence(txns) ==
    [i \in 1..Len(txns) |->
        [txns[i] EXCEPT !.category = "other", !.source = "fallback",
                        !.reasoning = "LLM unavailable"]]

\* ContentAnalyzerAgent._apply_fallback_categorization
_apply_fallback_categorization(txns) ==
    [i \in 1..Len(txns) |->
        [txns[i] EXCEPT !.category = "other", !.confidence = 30, !.source = "fallback",
                        !.reasoning = "LLM unavailable"]]

\* ContentAnalyzerAgent._batch_categorize_with_llm, given what its one
\* make_call met.
_batch_categorize_with_llm(txns, reply) ==
    IF make_call_returns_text(reply) /\ reply.body.json # "empty"
    THEN IF BatchCategorizationResponse_valid(reply.body)
         THEN _apply_llm_categorization(txns, reply.body.categorizations)
         ELSE _apply_fallback_categorization(txns)
    ELSE _apply_fallback_categorization(txns)

\* A plausible slip: the whole list is sent to the classifier.
process_sends_all(txns, reply) ==
    IF Uncategorized(txns) = <<>> THEN Categorized(txns)
    ELSE _batch_categorize_with_llm(txns, reply)

\* The list ContentAnalyzerAgent.process returns.
ContentAnalyzerAgent_process(txns, reply) ==
    IF Uncategorized(txns) = <<>> THEN Categorized(txns)
    ELSE Categorized(txns) \o _batch_categorize_with_llm(Uncategorized(txns), reply)

(* ---------------- AnalysisGeneratorAgent, LLMInterface ------------------ *)

\* The cost make_call adds per answered call, in thousandths of a dollar.
CallCost == 2

\* ai_insights = None.
NoInsights == <<"<None>">>

\* AnalysisGeneratorAgent._generate_ai_insights: the insights of a reply whose
\* text, split at '\n', is reply.lines; None when the call gave nothing.
_generate_ai_insights(reply) ==
    IF reply.kind = "text" /\ reply.lines # <<"">>
    THEN LET insights == SelectSeq([i \in 1..Len(reply.lines) |-> strip(reply.lines[i])],
                                   LAMBDA t : t # "")
         IN  SubSeq(insights, 1, IF Len(insights) < 5 THEN Len(insights) ELSE 5)
    ELSE NoInsights

(* ----------------------- BankStatementAnalyzer ------------------------- *)

MaxFileSize == 10 * 1024 * 1024

MaxTransactions == 500

\* BankStatementAnalyzer._validate_input: the error, or NoKey when valid.
_validate_input(file) ==
    IF ~file.exists THEN "File not found"
    ELSE IF ~file.pdf_suffix THEN "Only PDF files are supported"
    ELSE IF file.size > MaxFileSize THEN "File too large (>10MB)"
    ELSE IF file.size = 0 THEN "File is empty"
    ELSE NoKey

NoCalls == [a \in 1..3 |-> 0]

\* BankStatementAnalyzer._create_error_response
_create_error_response(error_message) ==
    [success |-> FALSE, error |-> error_message, transactions |-> <<>>,
     total_llm_calls |-> 0, estimated_cost |-> 0, agent_breakdown |-> NoCalls,
     ai_insights |-> NoInsights]

(* ------------------------------ inputs --------------------------------- *)

\* All sequences over S of length at most n.
RECURSIVE SeqsUpTo(_, _)
SeqsUpTo(S, n) ==
    IF n = 0 THEN {<<>>}
    ELSE LET shorter == SeqsUpTo(S, n - 1)
         IN  shorter \cup {Append(q, x) : q \in shorter, x \in S}

\* Phrases of one to n tokens of T, joined by single spaces.
RECURSIVE Phrases(_, _)
Phrases(T, n) ==
    IF n <= 1 THEN T
    ELSE LET shorter == Phrases(T, n - 1)
         IN  shorter \cup {q \o " " \o x : q \in shorter, x \in T}

MaxLines == 2

MaxEntries == 2

\* Lines of statement text the documents of the model are made of.
StatementLines == {
    "02/01/2024 STARBUCKS STORE -$5.67 $2,494.33",
    "02/03/2024 ZELLE TO JOHN +25.00 $2,400.00",
    "03-05-2024 ACME CORP $8.99 $2,136.68",
    "02/04/2024 ATM WITHDRAWAL -, $1,000.00",
    "02/01/2024 DUNKIN DONUTS 8901 -$4.50 $1,851.92" }

GoodFile == [exists |-> TRUE, pdf_suffix |-> TRUE, size |-> 4096]

BadFiles == {
    [exists |-> FALSE, pdf_suffix |-> TRUE, size |-> 0],
    [exists |-> TRUE, pdf_suffix |-> FALSE, size |-> 4096],
    [exists |-> TRUE, pdf_suffix |-> TRUE, size |-> MaxFileSize + 1],
    [exists |-> TRUE, pdf_suffix |-> TRUE, size |-> 0] }

\* Statements of as many transactions as analyze_statement accepts, and of
\* one more.
LargeDocuments ==
    {[file |-> GoodFile, open_ok |-> TRUE,
      lines |-> [i \in 1..n |-> "02/01/2024 STARBUCKS STORE -$5.67 $2,494.33"]] :
        n \in {MaxTransactions, MaxTransactions + 1}}

Documents ==
    {[file |-> f, open_ok |-> TRUE, lines |-> <<>>] : f \in BadFiles}
    \cup {[file |-> GoodFile, open_ok |-> FALSE, lines |-> <<>>]}
    \cup {[file |-> GoodFile, open_ok |-> TRUE, lines |-> l] :
            l \in {<<"", "   ">>, <<"Statement Period 01/01/2024 - 01/31/2024">>}}
    \cup {[file |-> GoodFile, open_ok |-> TRUE, lines |-> l] :
            l \in SeqsUpTo(StatementLines, MaxLines)}
    \cup LargeDocuments

Todays == {[year |-> 2026, month |-> 11, day |-> 5]}

\* Entries a classifier reply can carry: ids in and out of the batch, a
\* category of the vocabulary, one outside it, the sentinel, and a confidence
\* outside [0,1].
Entries == {
    [transaction_id |-> "txn_0", category |-> "shopping", confidence |-> 85,
     reasoning |-> "Retail purchase"],
    [transaction_id |-> "txn_0", category |-> "uncategorized", confidence |-> 50,
     reasoning |-> "Unclear"],
    [transaction_id |-> "txn_1", category |-> "income", confidence |-> 100,
     reasoning |-> "Transfer in"],
    [transaction_id |-> "txn_1", category |-> "crypto", confidence |-> 0,
     reasoning |-> "Exchange"],
    [transaction_id |-> "txn_2", category |-> "fees", confidence |-> 150,
     reasoning |-> "Service charge"],
    [transaction_id |-> "txn_9", category |-> "groceries", confidence |-> 90,
     reasoning |-> "Supermarket"] }

NoBody == [json |-> "none", categorizations |-> <<>>]

ClassifierReplies ==
    {[kind |-> k, body |-> NoBody] : k \in {"api_error", "no_content"}}
    \cup {[kind |-> "text", body |-> [json |-> j, categorizations |-> <<>>]] :
            j \in {"invalid", "malformed", "empty"}}
    \cup {[kind |-> "text", body |-> [json |-> "object", categorizations |-> c]] :
            c \in SeqsUpTo(Entries, MaxEntries)}

AdvisorReplies ==
    {[kind |-> k, lines |-> <<"">>] : k \in {"api_error", "no_content"}}
    \cup {[kind |-> "text", lines |-> l] :
            l \in {<<"">>, <<"", "  ">>, <<"Cook at home more often.", "", "Cancel unused plans.">>}}

(* ------------------------------- state --------------------------------- *)

VARIABLES
    pc,                    \* where analyze_statement stands
    pdf,                   \* the document under analysis
    generate_ai_insights,  \* the flag of the run
    doc_result,            \* what DocumentProcessorAgent.process returned
    transactions,          \* the transaction list handed from stage to stage
    llm_reply,             \* what the Content Analyzer's make_call met
    call_count,            \* LLMInterface.call_count
    total_cost,            \* LLMInterface.total_cost, in thousandths of a dollar
    llm_calls_made,        \* llm_calls_made of agent1, agent2, agent3
    session_state,         \* BankStatementAnalyzer.session_state
    result,                \* what analyze_statement returned
    cat_desc,              \* argument of the last categorize_transaction call
    cat_result,            \* and what it returned
    parse_line,            \* argument of the last _parse_single_transaction call
    parse_result,          \* and what it returned
    call_args,             \* arguments of a method called on its own
    call_value,            \* and what it returned
    invocations            \* the locals of interleaved analyze_statement calls

pipeline_vars == <<pc, pdf, generate_ai_insights, doc_result, transactions, llm_reply,
                   call_count, total_cost, llm_calls_made, session_state, result>>

unit_vars == <<cat_desc, cat_result, parse_line, parse_result, call_args, call_value>>

vars == <<pipeline_vars, unit_vars, invocations>>

NoDocument == [file |-> GoodFile, open_ok |-> FALSE, lines |-> <<"<no document>">>]

NoDocResult == [success |-> FALSE, error |-> NoKey, transactions |-> <<>>]

NoReply == [kind |-> "none", body |-> NoBody]

NoResult == [success |-> FALSE, error |-> NoKey, transactions |-> <<>>,
             total_llm_calls |-> 0, estimated_cost |-> 0, agent_breakdown |-> NoCalls,
             ai_insights |-> NoInsights]

\* A call that has not returned yet.
Pending == [pending |-> TRUE]

\* The calls of analyze_statement that may interleave on one analyzer.
Invocations == {"first", "second"}

\* The locals of a call of analyze_statement that has not started.
NotInvoked ==
    [pc |-> "idle", pdf |-> NoDocument, generate_ai_insights |-> FALSE,
     doc_result |-> NoDocResult, transactions |-> <<>>, llm_reply |-> NoReply,
     result |-> NoResult]

\* The analyzer as BankStatementAnalyzer.__init__ leaves it.
InitAnalyzer ==
    /\ invocations = [i \in Invocations |-> NotInvoked]
    /\ pc = "idle"
    /\ pdf = NoDocument
    /\ generate_ai_insights = FALSE
    /\ doc_result = NoDocResult
    /\ transactions = <<>>
    /\ llm_reply = NoReply
    /\ call_count = 0
    /\ total_cost = 0
    /\ llm_calls_made = NoCalls
    /\ session_state = [analyses_performed |-> 0, total_llm_calls |-> 0, total_cost |-> 0]
    /\ result = NoResult

NoCategorizeCall == cat_desc = NoKey /\ cat_result = <<NoKey, 0>>

NoParseCall == parse_line = NoKey /\ parse_result = Pending

NoCall == call_args = <<>> /\ call_value = Pending

\* A call that returned v.
Returned(v) == [value |-> v]

Init == InitAnalyzer /\ NoCategorizeCall /\ NoParseCall /\ NoCall

(* ------------------------------ actions -------------------------------- *)

\* LLMInterface.make_call on call_count, after calls calls.
make_call_count(count, calls) == count + calls

\* LLMInterface.make_call on total_cost, for a call that met reply.
make_call_cost(cost, reply) == IF reply.kind = "api_error" THEN cost ELSE cost + CallCost

\* A plausible slip: one make_call per transaction of the batch.
calls_per_transaction(txns) == Len(txns)

\* How many times _batch_categorize_with_llm calls make_call for a batch: the
\* call stands outside the loop over the transactions, and nothing retries it.
batch_calls(txns) == 1

\* A plausible slip: the early return of process on an empty batch is missing.
calls_without_early_return(txns) == batch_calls(Uncategorized(txns))

\* How many times ContentAnalyzerAgent.process calls make_call.
process_calls(txns) ==
    IF Uncategorized(txns) = <<>> THEN 0 ELSE batch_calls(Uncategorized(txns))

\* What ContentAnalyzerAgent.process adds to its llm_calls_made.
process_calls_made(txns) == IF process_calls(txns) = 0 THEN 0 ELSE 1

\* A plausible slip: the flag of the run is not consulted.
insights_calls_unconditional(flag) == 1

\* How many times AnalysisGeneratorAgent.process calls make_call.
insights_calls(flag) == IF flag THEN 1 ELSE 0

\* analyze_statement up to its routing on the validation result.
AnalyzeStart ==
    /\ pc = "idle"
    /\ \E doc \in Documents, ai \in BOOLEAN :
        /\ pdf' = doc
        /\ generate_ai_insights' = ai
        /\ call_count' = 0
        /\ total_cost' = 0
        /\ llm_calls_made' = NoCalls
        /\ IF _validate_input(doc.file) # NoKey
           THEN /\ result' = _create_error_response(_validate_input(doc.file))
                /\ pc' = "done"
           ELSE /\ result' = NoResult
                /\ pc' = "agent1"
    /\ UNCHANGED <<doc_result, transactions, llm_reply, session_state, unit_vars, invocations>>

\* A plausible slip: the limit itself is refused.
limit_refused(txns) == Len(txns) >= MaxTransactions

\* The upper bound of the routing on the transaction count: len(...) > 500.
too_many(txns) == Len(txns) > MaxTransactions

\* analyze_statement, STEP 1: agent1.process and the routing on its result.
Agent1Process ==
    /\ pc = "agent1"
    /\ \E now \in Todays, year_padded \in BOOLEAN :
        \E r \in {DocumentProcessorAgent_process(pdf, now, year_padded)} :
            /\ doc_result' = r
            /\ IF ~r.success
               THEN /\ result' = _create_error_response("Document processing failed: "
                                                        \o r.error)
                    /\ pc' = "done"
                    /\ UNCHANGED transactions
               ELSE IF Len(r.transactions) = 0
               THEN /\ result' = _create_error_response("No transactions found in document")
                    /\ pc' = "done"
                    /\ transactions' = r.transactions
               ELSE IF too_many(r.transactions)
               THEN /\ result' = _create_error_response(
                                     "Too many transactions - please split file")
                    /\ pc' = "done"
                    /\ transactions' = r.transactions
               ELSE /\ pc' = "agent2"
                    /\ transactions' = r.transactions
                    /\ UNCHANGED result
    /\ UNCHANGED <<pdf, generate_ai_insights, llm_reply, call_count, total_cost,
                   llm_calls_made, session_state, unit_vars, invocations>>

\* analyze_statement, STEP 2: agent2.process (ContentAnalyzerAgent.process).
Agent2Process ==
    /\ pc = "agent2"
    /\ \E reply \in ClassifierReplies :
        /\ transactions' = ContentAnalyzerAgent_process(transactions, reply)
        /\ call_count' = make_call_count(call_count, process_calls(transactions))
        /\ llm_calls_made' =
             [llm_calls_made EXCEPT ![2] = @ + process_calls_made(transactions)]
        /\ IF process_calls(transactions) = 0
           THEN /\ llm_reply' = NoReply
                /\ UNCHANGED total_cost
           ELSE /\ llm_reply' = reply
                /\ total_cost' = make_call_cost(total_cost, reply)
    /\ pc' = "agent3"
    /\ UNCHANGED <<pdf, generate_ai_insights, doc_result, session_state, result, unit_vars, invocations>>

\* The sum analyze_statement reports as total_llm_calls.
TotalCalls(made) == made[1] + made[2] + made[3]

\* What agent3.process leaves in llm_calls_made: the call is counted only
\* when it gave insights.
made_after_insights(made, ai_insights) ==
    IF ai_insights # NoInsights /\ ai_insights # <<>> THEN [made EXCEPT ![3] = @ + 1]
    ELSE made

\* The end of analyze_statement, given the counters agent3 left.
Finish(made, cost, ai_insights) ==
    /\ llm_calls_made' = made
    /\ total_cost' = cost
    /\ session_state' =
         [analyses_performed |-> session_state.analyses_performed + 1,
          total_llm_calls |-> session_state.total_llm_calls + TotalCalls(made),
          total_cost |-> session_state.total_cost + cost]
    /\ result' = [success |-> TRUE, error |-> NoKey, transactions |-> transactions,
                  total_llm_calls |-> TotalCalls(made), estimated_cost |-> cost,
                  agent_breakdown |-> made, ai_insights |-> ai_insights]

\* analyze_statement, STEP 3 to the end: agent3.process, the system metrics,
\* _update_session_state and the result.
Agent3Process ==
    /\ pc = "agent3"
    /\ call_count' = make_call_count(call_count, insights_calls(generate_ai_insights))
    /\ \E reply \in AdvisorReplies :
        IF insights_calls(generate_ai_insights) = 0
        THEN Finish(llm_calls_made, total_cost, NoInsights)
        ELSE Finish(made_after_insights(llm_calls_made, _generate_ai_insights(reply)),
                    make_call_cost(total_cost, reply), _generate_ai_insights(reply))
    /\ pc' = "done"
    /\ llm_reply' = NoReply
    /\ UNCHANGED <<pdf, generate_ai_insights, doc_result, transactions, unit_vars, invocations>>

Next == AnalyzeStart \/ Agent1Process \/ Agent2Process \/ Agent3Process

\* One analysis on a fresh analyzer.
Spec == Init /\ [][Next]_vars

(* ------------------- the categorizer called on its own ------------------ *)

MaxTokens == 2

DescriptionTokens == {
    "STARBUCKS STORE", "#1234", "Dunkin  Donuts", "coffee CAFE", "GAS STATION",
    "Market", "UBER", "EATS", "NETFLIX", "ATM", "pharmacy*77 cvs", "XYZ 12345" }

Descriptions == {""} \cup Phrases(DescriptionTokens, MaxTokens)

\* A call of categorize_transaction with any description.
InitCat ==
    /\ InitAnalyzer
    /\ NoParseCall
    /\ NoCall
    /\ cat_desc \in Descriptions
    /\ cat_result = <<NoKey, 0>>

CategorizeCall ==
    /\ cat_result = <<NoKey, 0>>
    /\ cat_result' = categorize_transaction(cat_desc)
    /\ UNCHANGED <<pipeline_vars, invocations, cat_desc, parse_line, parse_result, call_args, call_value>>

SpecCat == InitCat /\ [][CategorizeCall]_vars

(* --------------------- the parser called on its own --------------------- *)

MaxWords == 2

DateTokens == {"02/01/2024", "3-5-2024", "02/30/2024", "1/1/0999"}

WordTokens == {"DUNKIN DONUTS", "8901", "#4521", "Payroll  deposit", "fee refund"}

AmountTokens == {"-$4.50", "$8.99", "+1,234.5", "25", "-,", "$"}

BalanceTokens == {"$1,851.92", "7."}

ParserLines ==
    {d \o " " \o w \o " " \o a \o " " \o b :
        d \in DateTokens, w \in Phrases(WordTokens, MaxWords), a \in AmountTokens,
        b \in BalanceTokens}

\* A call of _parse_single_transaction with any line.
InitParse ==
    /\ InitAnalyzer
    /\ NoCategorizeCall
    /\ NoCall
    /\ parse_line \in ParserLines
    /\ parse_result = Pending

ParseCall ==
    /\ parse_result = Pending
    /\ \E now \in Todays, year_padded \in BOOLEAN :
        parse_result' = _parse_single_transaction(parse_line, now, year_padded)
    /\ UNCHANGED <<pipeline_vars, invocations, cat_desc, cat_result, parse_line, call_args, call_value>>

SpecParse == InitParse /\ [][ParseCall]_vars

(* ----------------- direction inference called on its own --------------- *)

MaxKeywords == 2

\* Words of a statement line: with a debit keyword, with a credit keyword,
\* with a keyword inside another word, with both, with none.
DirectionTokens == {"WITHDRAWAL", "Coffee", "REFUND", "Salary", "ZELLE", "Interest Charge"}

\* A call of _is_debit_transaction with the amount token of a line and the line.
InitDebit ==
    /\ InitAnalyzer /\ NoCategorizeCall /\ NoParseCall
    /\ call_args \in {<<a, "02/01/2024 " \o w \o " " \o a \o " $10.00">> :
                        a \in {"-$4.50", "+25.00", "$8.99", "7"},
                        w \in Phrases(DirectionTokens, MaxKeywords)}
    /\ call_value = Pending

DebitCall ==
    /\ call_value = Pending
    /\ call_value' = Returned(_is_debit_transaction(call_args[1], call_args[2]))
    /\ UNCHANGED <<pipeline_vars, invocations, cat_desc, cat_result, parse_line, parse_result, call_args>>

SpecDebit == InitDebit /\ [][DebitCall]_vars

(* --------------------- the line filter called on its own ---------------- *)

MaxFilterLines == 2

\* Lines of extracted text: transactions (one to trim), blank, separator,
\* headers that carry a date, an amount and words, lines lacking one of the three.
FilterLines == {
    "  02/01/2024 STARBUCKS STORE -$5.67 $2,494.33 ",
    "3-5-2024 ab ACME",
    "",
    "----------",
    "Statement Period 01/01/2024 - 01/31/2024",
    "Date 02/01/2024 COFFEE $3.00",
    "REFERENCE NUMBER ONLY",
    "02/01/2024 12 $5 ab" }

\* A call of _find_transaction_lines with any text.
InitFilter ==
    /\ InitAnalyzer /\ NoCategorizeCall /\ NoParseCall
    /\ call_args \in SeqsUpTo(FilterLines, MaxFilterLines)
    /\ call_value = Pending

FilterCall ==
    /\ call_value = Pending
    /\ call_value' = Returned(_find_transaction_lines(call_args))
    /\ UNCHANGED <<pipeline_vars, invocations, cat_desc, cat_result, parse_line, parse_result, call_args>>

SpecFilter == InitFilter /\ [][FilterCall]_vars

(* ------------------- the text extractor called on its own --------------- *)

MaxPages == 2

\* Pages with and without tables, positional text and characters.
PageTables == {
    <<>>,
    << << <<"02/01/2024", " STARBUCKS STORE", "-$5.67", "$2,494.33">>, <<"", " ">>,
          <<"02/04/2024", "", "ATM", "7.">> >> >>,
    << << <<"a">> >>, <<>> >> }

Pages ==
    [tables : PageTables,
     page_text : {"", "02/03/2024 ZELLE TO JOHN +25.00 $2,400.00"},
     chars : {<<>>, <<"0", "2", "/">>, [i \in 1..(CharsLimit + 1) |-> "x"]}]

\* A call of _extract_text_from_pdf with any document that opens.
InitExtract ==
    /\ InitAnalyzer /\ NoCategorizeCall /\ NoParseCall
    /\ call_args \in SeqsUpTo(Pages, MaxPages)
    /\ call_value = Pending

ExtractCall ==
    /\ call_value = Pending
    /\ call_value' = Returned(_extract_text_from_pdf(call_args))
    /\ UNCHANGED <<pipeline_vars, invocations, cat_desc, cat_result, parse_line, parse_result, call_args>>

SpecExtract == InitExtract /\ [][ExtractCall]_vars

\* Date strings of three fields: valid in each of the four formats, valid in
\* none, with one- and two-digit months and days and a year below 1000.
DateFields == {"1", "02", "12", "13", "31", "0999", "2024", "Feb", "FEB"}

DateStrings ==
    {a \o sep \o b \o sep \o c : a \in DateFields, b \in DateFields, c \in DateFields,
                                 sep \in {"/", "-"}}

\* A call of _parse_date followed by strftime('%Y-%m-%d') on its result, as in
\* _extract_transaction_data.
InitDate ==
    /\ InitAnalyzer /\ NoCategorizeCall /\ NoParseCall
    /\ call_args \in {<<s>> : s \in DateStrings}
    /\ call_value = Pending

DateCall ==
    /\ call_value = Pending
    /\ \E now \in Todays, year_padded \in BOOLEAN :
          call_value' = Returned(strftime(_parse_date(call_args[1], now), year_padded))
    /\ UNCHANGED <<pipeline_vars, invocations, cat_desc, cat_result, parse_line, parse_result, call_args>>

SpecDate == InitDate /\ [][DateCall]_vars

(* ----------------- several analyses on the same analyzer --------------- *)

MaxRuns == 2

\* The documents of the later analyses: those of at most one line.
SessionDocuments == {d \in Documents : Len(d.lines) <= 1}

\* A plausible slip: the counters of the interface are left as they are.
counters_kept(llm) == llm

\* A plausible slip: only the cost is reset.
resets_cost_only(llm) == [call_count |-> llm.call_count, total_cost |-> 0]

\* LLMInterface.reset_counters, on the two counters of the interface.
reset_counters(llm) == [call_count |-> 0, total_cost |-> 0]

\* A later call of analyze_statement on the same analyzer, up to its routing
\* on the validation result: the locals of the call are fresh, the counters
\* are reset, session_state is what the earlier analyses left.
AnalyzeAgain ==
    /\ pc = "done"
    /\ session_state.analyses_performed < MaxRuns
    /\ \E doc \in SessionDocuments, ai \in BOOLEAN :
        /\ pdf' = doc
        /\ generate_ai_insights' = ai
        /\ call_count' =
             reset_counters([call_count |-> call_count, total_cost |-> total_cost]).call_count
        /\ total_cost' =
             reset_counters([call_count |-> call_count, total_cost |-> total_cost]).total_cost
        /\ llm_calls_made' = NoCalls
        /\ IF _validate_input(doc.file) # NoKey
           THEN /\ result' = _create_error_response(_validate_input(doc.file))
                /\ pc' = "done"
           ELSE /\ result' = NoResult
                /\ pc' = "agent1"
    /\ doc_result' = NoDocResult
    /\ transactions' = <<>>
    /\ llm_reply' = NoReply
    /\ UNCHANGED <<session_state, unit_vars, invocations>>

NextSession ==
    AnalyzeStart \/ AnalyzeAgain \/ Agent1Process \/ Agent2Process \/ Agent3Process

\* Analyses one after the other on one analyzer.
SpecSession == Init /\ [][NextSession]_vars

(* ------------- interleaved analyses on the same analyzer --------------- *)

\* The pipeline's own variables stand still while the interleaved calls run.
single_call_vars ==
    <<pc, pdf, generate_ai_insights, doc_result, transactions, llm_reply, result>>

\* The documents of the interleaved calls: one that fails validation, one
\* whose only transaction the merchant database categorizes, one whose only
\* transaction goes to the classifier.
InterleavedDocuments ==
    {d \in SessionDocuments :
        \/ d.file.size > MaxFileSize
        \/ d.lines \in {<<"02/01/2024 STARBUCKS STORE -$5.67 $2,494.33">>,
                       <<"03-05-2024 ACME CORP $8.99 $2,136.68">>}}

\* invocations with the locals of call i replaced.
with_locals(i, locals) == [invocations EXCEPT ![i] = locals]

\* analyze_statement of call i up to its routing on the validation result:
\* the counters it resets are those of the analyzer, shared by every call.
InvocationStart(i) ==
    /\ invocations[i].pc = "idle"
    /\ \E doc \in InterleavedDocuments, ai \in BOOLEAN :
        invocations' = with_locals(i,
            [invocations[i] EXCEPT
                !.pdf = doc,
                !.generate_ai_insights = ai,
                !.result = IF _validate_input(doc.file) # NoKey
                           THEN _create_error_response(_validate_input(doc.file))
                           ELSE NoResult,
                !.pc = IF _validate_input(doc.file) # NoKey THEN "done" ELSE "agent1"])
    /\ call_count' =
         reset_counters([call_count |-> call_count, total_cost |-> total_cost]).call_count
    /\ total_cost' =
         reset_counters([call_count |-> call_count, total_cost |-> total_cost]).total_cost
    /\ llm_calls_made' = NoCalls
    /\ UNCHANGED <<single_call_vars, session_state, unit_vars>>

\* The locals of a call after STEP 1, agent1.process having returned r.
after_agent1(locals, r) ==
    IF ~r.success
    THEN [locals EXCEPT !.doc_result = r, !.pc = "done",
             !.result = _create_error_response("Document processing failed: " \o r.error)]
    ELSE IF Len(r.transactions) = 0
    THEN [locals EXCEPT !.doc_result = r, !.pc = "done", !.transactions = r.transactions,
             !.result = _create_error_response("No transactions found in document")]
    ELSE IF too_many(r.transactions)
    THEN [locals EXCEPT !.doc_result = r, !.pc = "done", !.transactions = r.transactions,
             !.result = _create_error_response("Too many transactions - please split file")]
    ELSE [locals EXCEPT !.doc_result = r, !.pc = "agent2", !.transactions = r.transactions]

InvocationAgent1(i) ==
    /\ invocations[i].pc = "agent1"
    /\ \E now \in Todays, year_padded \in BOOLEAN :
        invocations' = with_locals(i,
            after_agent1(invocations[i],
                         DocumentProcessorAgent_process(invocations[i].pdf, now, year_padded)))
    /\ UNCHANGED <<single_call_vars, call_count, total_cost, llm_calls_made, session_state,
                   unit_vars>>

\* STEP 2 of call i: agent2.process adds to the counters of the analyzer.
InvocationAgent2(i) ==
    /\ invocations[i].pc = "agent2"
    /\ \E reply \in ClassifierReplies :
        /\ invocations' = with_locals(i,
              [invocations[i] EXCEPT
                  !.transactions = ContentAnalyzerAgent_process(@, reply),
                  !.llm_reply = IF process_calls(invocations[i].transactions) = 0
                                THEN NoReply ELSE reply,
                  !.pc = "agent3"])
        /\ call_count' = make_call_count(call_count, process_calls(invocations[i].transactions))
        /\ llm_calls_made' =
             [llm_calls_made EXCEPT
                 ![2] = @ + process_calls_made(invocations[i].transactions)]
        /\ total_cost' = IF process_calls(invocations[i].transactions) = 0 THEN total_cost
                         ELSE make_call_cost(total_cost, reply)
    /\ UNCHANGED <<single_call_vars, session_state, unit_vars>>

\* The end of call i, given the counters agent3 left on the analyzer.
InvocationFinish(i, made, cost, ai_insights) ==
    /\ llm_calls_made' = made
    /\ total_cost' = cost
    /\ session_state' =
         [analyses_performed |-> session_state.analyses_performed + 1,
          total_llm_calls |-> session_state.total_llm_calls + TotalCalls(made),
          total_cost |-> session_state.total_cost + cost]
    /\ invocations' = with_locals(i,
          [invocations[i] EXCEPT
              !.pc = "done",
              !.llm_reply = NoReply,
              !.result = [success |-> TRUE, error |-> NoKey,
                          transactions |-> invocations[i].transactions,
                          total_llm_calls |-> TotalCalls(made), estimated_cost |-> cost,
                          agent_breakdown |-> made, ai_insights |-> ai_insights]])

\* STEP 3 of call i to its end: what it reports is read from the analyzer.
InvocationAgent3(i) ==
    /\ invocations[i].pc = "agent3"
    /\ call_count' = make_call_count(call_count,
                                     insights_calls(invocations[i].generate_ai_insights))
    /\ \E reply \in AdvisorReplies :
        IF insights_calls(invocations[i].generate_ai_insights) = 0
        THEN InvocationFinish(i, llm_calls_made, total_cost, NoInsights)
        ELSE InvocationFinish(i,
                 made_after_insights(llm_calls_made, _generate_ai_insights(reply)),
                 make_call_cost(total_cost, reply), _generate_ai_insights(reply))
    /\ UNCHANGED <<single_call_vars, unit_vars>>

NextInterleaved ==
    \E i \in Invocations :
        InvocationStart(i) \/ InvocationAgent1(i) \/ InvocationAgent2(i)
            \/ InvocationAgent3(i)

\* Two calls of analyze_statement on one analyzer, their stages interleaved.
SpecInterleaved == Init /\ [][NextInterleaved]_vars

(* ------------- the categorization steps called on their own ------------ *)

\* What a step that writes into the dicts of the list it is given, and
\* returns that list, leaves behind: `for txn in transactions: txn[...] = ...`
\* and `return transactions`. given is the list as it was at the call,
\* given_after the same list after it, same_list tells that the list returned
\* is the list given.
written_in_place(given, returned) ==
    [given |-> given, returned |-> returned, given_after |-> returned, same_list |-> TRUE]

\* The transaction lists _parse_transaction_lines gives for the statements of
\* the model.
ParsedLists ==
    {_parse_transaction_lines(l, now, TRUE) : l \in SeqsUpTo(StatementLines, MaxLines),
                                             now \in Todays}

\* The categorizations _apply_llm_categorization can be called with: those of
\* a validated response.
ValidCategorizations ==
    {c \in SeqsUpTo(Entries, MaxEntries) :
        BatchCategorizationResponse_valid([json |-> "object", categorizations |-> c])}

InitInPlace ==
    /\ InitAnalyzer /\ NoCategorizeCall /\ NoParseCall
    /\ call_args \in ParsedLists
    /\ call_value = Pending

\* _apply_basic_categorization, called with the parsed transactions.
BasicCategorizationCall ==
    /\ call_value = Pending
    /\ call_value' = Returned(written_in_place(call_args,
                                               _apply_basic_categorization(call_args)))
    /\ UNCHANGED <<pipeline_vars, invocations, cat_desc, cat_result, parse_line, parse_result, call_args>>

\* _apply_fallback_categorization, called with the batch of the transactions
\* the merchant database left uncategorized.
FallbackCategorizationCall ==
    /\ call_value = Pending
    /\ call_value' =
         Returned(written_in_place(
             Uncategorized(_apply_basic_categorization(call_args)),
             _apply_fallback_categorization(
                 Uncategorized(_apply_basic_categorization(call_args)))))
    /\ UNCHANGED <<pipeline_vars, invocations, cat_desc, cat_result, parse_line, parse_result, call_args>>

\* _apply_llm_categorization, called with the same batch and a validated
\* response.
LlmCategorizationCall ==
    /\ call_value = Pending
    /\ \E c \in ValidCategorizations :
          call_value' =
            Returned(written_in_place(
                Uncategorized(_apply_basic_categorization(call_args)),
                _apply_llm_categorization(
                    Uncategorized(_apply_basic_categorization(call_args)), c)))
    /\ UNCHANGED <<pipeline_vars, invocations, cat_desc, cat_result, parse_line, parse_result, call_args>>

NextInPlace ==
    BasicCategorizationCall \/ FallbackCategorizationCall \/ LlmCategorizationCall

SpecInPlace == InitInPlace /\ [][NextInPlace]_vars

(* ------------- the transaction parser called on its own ---------------- *)

MaxCandidates == 3

\* Candidate lines, all kept by the line filter: of the Chase and of the
\* Wells Fargo shape, with a date and with an amount that do not parse, and
\* of no pattern's shape (a digit in the description, no balance), and with
\* a reference code between two words of the description.
CandidateLines == {
    "02/07/2024 SQ *COFFEE SHOP -$4.50 $1,851.92",
    "02/01/2024 STARBUCKS STORE -$5.67 $2,494.33",
    "03-05-2024 BURGER KING #4521 $8.99 $2,136.68",
    "02/30/2024 ZELLE TO JOHN +25.00 $2,400.00",
    "02/04/2024 ATM WITHDRAWAL -, $1,000.00",
    "03-05-2024 ACME CORP $8.99 $2,136.68",
    "02/06/2024 REFUND $12.00" }

\* A call of _parse_transaction_lines with any list of candidate lines.
InitParseLines ==
    /\ InitAnalyzer /\ NoCategorizeCall /\ NoParseCall
    /\ call_args \in SeqsUpTo(CandidateLines, MaxCandidates)
    /\ call_value = Pending

ParseLinesCall ==
    /\ call_value = Pending
    /\ \E now \in Todays, year_padded \in BOOLEAN :
          call_value' = Returned(_parse_transaction_lines(call_args, now, year_padded))
    /\ UNCHANGED <<pipeline_vars, invocations, cat_desc, cat_result, parse_line, parse_result, call_args>>

SpecParseLines == InitParseLines /\ [][ParseLinesCall]_vars

(* ------------------------------- claims -------------------------------- *)

\* Under Spec, while pc = "agent3" the list ContentAnalyzerAgent.process was
\* called with is doc_result.transactions, the list it returned is
\* transactions, and llm_reply is what its make_call met (NoReply: no call).
ProcessInput == doc_result.transactions

ProcessKept == Categorized(ProcessInput)

ProcessBatch == Uncategorized(ProcessInput)

\* The transaction returned for position k (from 1) of the batch.
Classified(k) == transactions[Len(ProcessKept) + k]

\* The returned list is the transactions categorized before, untouched, and
\* then the transactions of the batch, in their order.
SameTransactions ==
    /\ Len(transactions) = Len(ProcessKept) + Len(ProcessBatch)
    /\ SubSeq(transactions, 1, Len(ProcessKept)) = ProcessKept
    /\ \A k \in 1..Len(ProcessBatch) :
        /\ Classified(k).transaction_id = ProcessBatch[k].transaction_id
        /\ Classified(k).description = ProcessBatch[k].description
        /\ Classified(k).date = ProcessBatch[k].date
        /\ Classified(k).amount = ProcessBatch[k].amount
        /\ Classified(k).is_debit = ProcessBatch[k].is_debit
        /\ Classified(k).balance = ProcessBatch[k].balance

\* C1: every transaction of the list ContentAnalyzerAgent.process returns has
\* a category other than 'uncategorized', whatever the classifier answered.
C1_TotalCoverage ==
    pc = "agent3" =>
        \A i \in 1..Len(transactions) : transactions[i].category # "uncategorized"

\* C2: with at least one uncategorized transaction in the batch, one call of
\* ContentAnalyzerAgent.process makes exactly one make_call, whatever the batch
\* size and whether the call succeeds, and adds exactly 1 to llm_calls_made
\* (both counters are 0 when process is entered).
C2_ExactlyOneCall ==
    /\ pc = "agent2" => (call_count = 0 /\ llm_calls_made[2] = 0)
    /\ (pc = "agent3" /\ ProcessBatch # <<>>) =>
           (call_count = 1 /\ llm_calls_made[2] = 1)

C2_Witness ==
    /\ pc = "agent3"
    /\ Len(ProcessBatch) = 2
    /\ llm_reply.kind = "api_error"
    /\ call_count = 1

\* C3: with no uncategorized transaction in the batch, process makes no
\* make_call, leaves llm_calls_made as it was and returns the same
\* transactions in the same order with every field unchanged.
C3_NoCallWhenAllCategorized ==
    (pc = "agent3" /\ ProcessBatch = <<>>) =>
        /\ call_count = 0
        /\ llm_calls_made[2] = 0
        /\ llm_reply = NoReply
        /\ transactions = ProcessInput

C3_Witness ==
    /\ pc = "agent3"
    /\ Len(ProcessInput) = 2
    /\ ProcessBatch = <<>>
    /\ transactions[1].category = "food_dining"
    /\ call_count = 0

\* The classification failed: the call raised or gave nothing, or its text is
\* empty, is no JSON, is JSON of another shape, or has an entry whose
\* confidence lies outside [0, 1].
ClassificationFailed(reply) ==
    \/ reply.kind \in {"api_error", "no_content"}
    \/ /\ reply.kind = "text"
       /\ reply.body.json \in {"empty", "invalid", "malformed"}
    \/ /\ reply.kind = "text"
       /\ reply.body.json = "object"
       /\ \E j \in 1..Len(reply.body.categorizations) :
            \/ reply.body.categorizations[j].confidence < 0
            \/ reply.body.categorizations[j].confidence > 100

\* C4: when the classification fails, process still returns; every transaction
\* of the batch ends with category 'other', confidence 0.3 and source
\* 'fallback', no transaction ends with source 'llm', and exactly one
\* make_call was made.
C4_WholesaleFallback ==
    (pc = "agent3" /\ ClassificationFailed(llm_reply)) =>
        /\ SameTransactions
        /\ \A k \in 1..Len(ProcessBatch) :
            /\ Classified(k).category = "other"
            /\ Classified(k).confidence = 30
            /\ Classified(k).source = "fallback"
        /\ \A i \in 1..Len(transactions) : transactions[i].source # "llm"
        /\ call_count = 1

C4_Witness ==
    /\ pc = "agent3"
    /\ Len(ProcessBatch) = 2
    /\ llm_reply.kind = "text"
    /\ llm_reply.body.json = "object"
    /\ Len(llm_reply.body.categorizations) = 2
    /\ llm_reply.body.categorizations[1].transaction_id = "txn_0"
    /\ llm_reply.body.categorizations[1].confidence = 85
    /\ llm_reply.body.categorizations[2].confidence = 150
    /\ transactions[1].source = "fallback"
    /\ transactions[1].confidence = 30

\* The response passes the schema: an object whose entries all have a
\* confidence in [0, 1].
SchemaValid(reply) ==
    /\ reply.kind = "text"
    /\ reply.body.json = "object"
    /\ \A j \in 1..Len(reply.body.categorizations) :
        /\ reply.body.categorizations[j].confidence >= 0
        /\ reply.body.categorizations[j].confidence <= 100

\* The identifier of position k (from 1) of a batch.
PositionId(k) == <<"txn_0", "txn_1", "txn_2", "txn_3">>[k]

\* C5: for a schema-valid response, the transaction at 0-based position i of
\* the batch is looked up as 'txn_i', whatever its own transaction_id: it gets
\* the category, confidence and reasoning of an entry with that identifier and
\* source 'llm' if there is one, and 'other', 0.5 and source 'fallback'
\* otherwise; entries with other identifiers change nothing.
C5_PositionalAssignment ==
    (pc = "agent3" /\ SchemaValid(llm_reply)) =>
        /\ SameTransactions
        /\ \A k \in 1..Len(ProcessBatch) :
            LET present == {j \in 1..Len(llm_reply.body.categorizations) :
                              llm_reply.body.categorizations[j].transaction_id
                                  = PositionId(k)}
            IN  IF present # {}
                THEN /\ Classified(k).source = "llm"
                     /\ \E j \in present :
                         /\ Classified(k).category
                              = llm_reply.body.categorizations[j].category
                         /\ Classified(k).confidence
                              = llm_reply.body.categorizations[j].confidence
                         /\ Classified(k).reasoning
                              = llm_reply.body.categorizations[j].reasoning
                ELSE /\ Classified(k).category = "other"
                     /\ Classified(k).confidence = 50
                     /\ Classified(k).source = "fallback"

C5_Witness ==
    /\ pc = "agent3"
    /\ SchemaValid(llm_reply)
    /\ Len(ProcessBatch) = 2
    /\ Len(llm_reply.body.categorizations) = 2
    /\ llm_reply.body.categorizations[1].transaction_id = "txn_0"
    /\ llm_reply.body.categorizations[2].transaction_id = "txn_9"
    /\ transactions[1].transaction_id = "txn_1"
    /\ transactions[1].source = "llm"
    /\ transactions[1].category = "shopping"
    /\ transactions[2].source = "fallback"
    /\ transactions[2].confidence = 50

\* C6: one run of analyze_statement makes at most 2 calls of the language
\* model: none by the Document Processor, at most one by the Content Analyzer,
\* at most one by the Analysis Generator and none by it when
\* generate_ai_insights is false.
C6_AtMostTwoCalls ==
    /\ [](call_count <= 2)
    /\ [][/\ pc = "idle" => call_count' = 0
          /\ pc = "agent1" => call_count' = call_count
          /\ pc = "agent2" => call_count' \in {call_count, call_count + 1}
          /\ pc = "agent3" => call_count' \in {call_count, call_count + 1}
          /\ (pc = "agent3" /\ ~generate_ai_insights) => call_count' = call_count]_vars

C6_Witness ==
    /\ pc = "done"
    /\ result.success
    /\ generate_ai_insights
    /\ call_count = 2

\* C7: the Merchant Categorizer and the Fallback Classifier share one closed
\* category set: every category the Merchant Categorizer gave a transaction is
\* in the vocabulary of the Fallback Classifier, and so is every category a
\* transaction carries after ContentAnalyzerAgent.process.
C7_SharedCategorySet ==
    /\ \A i \in 1..Len(doc_result.transactions) :
        doc_result.transactions[i].category \in valid_categories \cup {"uncategorized"}
    /\ pc = "agent3" =>
        \A i \in 1..Len(transactions) : transactions[i].category \in valid_categories

(* ---------------------- claims on the categorizer ----------------------- *)

\* The confidence tiers by matched keyword.
Tier(keyword) ==
    IF keyword \in {"starbucks", "walmart", "amazon", "netflix"} THEN 95
    ELSE IF keyword \in {"gas station", "grocery", "pharmacy"} THEN 90
    ELSE IF keyword \in {"restaurant", "cafe", "market"} THEN 75
    ELSE 80

\* <<c, k>> for every keyword k of category c that is a substring of clean.
KeywordHits(clean) ==
    {p \in UNION {{<<c, k>> : k \in 1..Len(merchant_keywords[c].keywords)} :
                    c \in 1..Len(merchant_keywords)} :
        Contains(merchant_keywords[p[1]].keywords[p[2]], clean)}

\* The first of the hits, in category order and then keyword order.
FirstHit(hits) ==
    CHOOSE p \in hits :
        \A q \in hits : p[1] < q[1] \/ (p[1] = q[1] /\ p[2] <= q[2])

\* clean is lower case, has no '#' or '*', no run of 4 digits, no white space
\* but single inner spaces.
IsCleaned(clean) ==
    /\ \A i \in 1..Len(clean) :
        /\ CharAt(clean, i) \notin UpperChars \cup {"#", "*", "\t"}
        /\ CharAt(clean, i) = " " =>
               (i > 1 /\ i < Len(clean) /\ CharAt(clean, i + 1) # " ")
    /\ \A i \in 1..(Len(clean) - 3) :
        \E j \in i..(i + 3) : ~IsDigit(CharAt(clean, j))

\* The description categorize_transaction matches the keywords against.
CleanedDescription == _clean_description_for_matching(strip(lower(cat_desc)))

\* C8: categorize_transaction is first-match on the cleaned description (lower
\* case, '#'/'*' tokens and runs of 4+ digits removed, white space collapsed):
\* it returns the category of the first keyword, in category order and then
\* keyword order, that is a substring, with confidence by the tier of that
\* keyword, and ('uncategorized', 0.0) iff no keyword is a substring;
\* 'STARBUCKS STORE #1234' is cleaned to 'starbucks store' and gives
\* ('food_dining', 0.95).
C8_FirstMatch ==
    cat_result # <<NoKey, 0>> =>
        /\ IsCleaned(CleanedDescription)
        /\ (KeywordHits(CleanedDescription) = {}) <=> (cat_result = <<"uncategorized", 0>>)
        /\ KeywordHits(CleanedDescription) # {} =>
             LET p == FirstHit(KeywordHits(CleanedDescription))
             IN  cat_result = <<merchant_keywords[p[1]].category,
                                Tier(merchant_keywords[p[1]].keywords[p[2]])>>
        /\ cat_desc = "STARBUCKS STORE #1234" =>
             (CleanedDescription = "starbucks store" /\ cat_result = <<"food_dining", 95>>)

C8_Witness ==
    /\ cat_desc = "STARBUCKS STORE #1234"
    /\ cat_result = <<"food_dining", 95>>

(* ------------------------ claims on the parser ------------------------- *)

\* C9: the parser turns the line
\* '02/01/2024 DUNKIN DONUTS 8901 -$4.50 $1,851.92' into a transaction with
\* date '2024-02-01', description 'DUNKIN DONUTS', amount 4.50, is_debit true
\* and balance 1851.92.
C9_ChaseExampleParses ==
    (parse_line = "02/01/2024 DUNKIN DONUTS 8901 -$4.50 $1,851.92"
     /\ parse_result # Pending) =>
        /\ parse_result # None
        /\ parse_result.date = "2024-02-01"
        /\ parse_result.description = "DUNKIN DONUTS"
        /\ parse_result.amount = 450
        /\ parse_result.is_debit
        /\ parse_result.balance = 185192

\* The amounts of a list of transactions are all >= 0.
NonNegative(txns) == \A i \in 1..Len(txns) : txns[i].amount >= 0

\* The transactions of txns parsed from a line whose amount token is raw.
WithRawAmount(txns, raw) ==
    {i \in 1..Len(txns) : \E j \in 1..(Len(txns[i].original_line) - Len(raw) - 1) :
        SubSeq(txns[i].original_line, j, j + Len(raw) + 1) = " " \o raw \o " "}

\* C10: every transaction the parser produces has amount >= 0, whatever the
\* sign of the raw amount token and also when the token does not parse (then
\* 0.0); the amount stays >= 0 through the Merchant Categorizer and the
\* Fallback Classifier, and is_debit alone carries the direction.
C10_AmountsNonNegative ==
    /\ NonNegative(doc_result.transactions)
    /\ NonNegative(transactions)
    /\ NonNegative(result.transactions)
    /\ \A i \in WithRawAmount(transactions, "-$5.67") :
        transactions[i].amount = 567 /\ transactions[i].is_debit
    /\ \A i \in WithRawAmount(transactions, "+25.00") :
        transactions[i].amount = 2500 /\ ~transactions[i].is_debit
    /\ \A i \in WithRawAmount(transactions, "-,") : transactions[i].amount = 0

C10_Witness ==
    /\ pc = "done"
    /\ result.success
    /\ Len(result.transactions) = 2
    /\ WithRawAmount(result.transactions, "-$5.67") # {}
    /\ WithRawAmount(result.transactions, "-,") # {}
    /\ \A i \in 1..2 : result.transactions[i].is_debit

(* -------------------- claims on direction inference -------------------- *)

HasDebitKeyword(line) ==
    \E k \in {"withdrawal", "purchase", "payment", "fee", "charge"} :
        Contains(k, lower(line))

HasCreditKeyword(line) ==
    \E k \in {"deposit", "interest", "refund", "credit", "salary"} :
        Contains(k, lower(line))

\* C11: direction inference follows explicit sign > debit keyword > credit
\* keyword > default debit: a token starting with '-' is a debit and one
\* starting with '+' a credit whatever the keywords; otherwise a line with a
\* debit keyword is a debit even if it also has a credit keyword; otherwise a
\* line with a credit keyword is a credit; otherwise the transaction is a debit.
C11_DirectionPriority ==
    call_value # Pending =>
        LET sign == CharAt(call_args[1], 1)
            line == call_args[2]
        IN  /\ sign = "-" => call_value = Returned(TRUE)
            /\ sign = "+" => call_value = Returned(FALSE)
            /\ (sign \notin {"-", "+"} /\ HasDebitKeyword(line)) => call_value = Returned(TRUE)
            /\ (sign \notin {"-", "+"} /\ ~HasDebitKeyword(line) /\ HasCreditKeyword(line))
                   => call_value = Returned(FALSE)
            /\ (sign \notin {"-", "+"} /\ ~HasDebitKeyword(line) /\ ~HasCreditKeyword(line))
                   => call_value = Returned(TRUE)

C11_Witness ==
    /\ call_args = <<"$8.99", "02/01/2024 REFUND WITHDRAWAL $8.99 $10.00">>
    /\ call_value = Returned(TRUE)

(* ----------------------- claims on the line filter --------------------- *)

\* line has digits{1,2} sep digits{1,2} sep digits{4} with sep '/' or '-'.
HasDateToken(line) ==
    \E i \in 1..Len(line), a, b \in 1..2 :
        /\ i + a + b + 5 <= Len(line)
        /\ \A j \in i..(i + a - 1) : IsDigit(CharAt(line, j))
        /\ CharAt(line, i + a) \in {"/", "-"}
        /\ \A j \in (i + a + 1)..(i + a + b) : IsDigit(CharAt(line, j))
        /\ CharAt(line, i + a + b + 1) \in {"/", "-"}
        /\ \A j \in (i + a + b + 2)..(i + a + b + 5) : IsDigit(CharAt(line, j))

HasAmountToken(line) ==
    \E i \in 1..Len(line) : IsDigit(CharAt(line, i)) \/ CharAt(line, i) = ","

HasThreeLetters(line) ==
    \E i \in 1..(Len(line) - 2) : \A j \in i..(i + 2) : IsAlpha(CharAt(line, j))

\* The trimmed line belongs in the output of the Line Filter.
TransactionLike(line) ==
    /\ line # ""
    /\ ~_is_header_or_footer(line)
    /\ HasDateToken(line) /\ HasAmountToken(line) /\ HasThreeLetters(line)

\* C12: the Line Filter returns exactly the trimmed non-empty lines, in source
\* order and with duplicates kept, that match no header, footer or separator
\* signature and contain a date-like token, an amount-like token and a run of
\* 3+ letters; a header line is left out even when it has all three, and a
\* line lacking one of them ('REFERENCE NUMBER ONLY') is never returned.
C12_LineFilter ==
    call_value # Pending =>
        /\ call_value.value =
             SelectSeq([i \in 1..Len(call_args) |-> strip(call_args[i])], TransactionLike)
        /\ \A i \in 1..Len(call_value.value) :
             call_value.value[i] \notin {"REFERENCE NUMBER ONLY", "02/01/2024 12 $5 ab",
                                         "Date 02/01/2024 COFFEE $3.00",
                                         "Statement Period 01/01/2024 - 01/31/2024"}

C12_Witness ==
    /\ call_args = <<"Date 02/01/2024 COFFEE $3.00",
                     "  02/01/2024 STARBUCKS STORE -$5.67 $2,494.33 ">>
    /\ call_value = Returned(<<"02/01/2024 STARBUCKS STORE -$5.67 $2,494.33">>)

(* ---------------------- claims on the text extractor ------------------- *)

\* The one kind of content a page contributes: its table rows when it has
\* tables, else its positional text, else its characters.
OneKind(page, page_num) ==
    IF page.tables # <<>> THEN page_tables(page, page_num, 1)
    ELSE IF page.page_text # "" THEN page_text_block(page, page_num)
    ELSE page_chars_block(page, page_num)

RECURSIVE OneKindFrom(_, _)
OneKindFrom(pages, page_num) ==
    IF page_num > Len(pages) THEN ""
    ELSE OneKind(pages[page_num], page_num) \o OneKindFrom(pages, page_num + 1)

\* C13: each page contributes exactly one kind of content to the text: the
\* table rows when it has tables, the positional text only when it has none,
\* the characters only when both give nothing; the pages follow in page order.
C13_OneKindPerPage ==
    call_value # Pending => call_value.value = OneKindFrom(call_args, 1)

(* ---------------------- claims on date normalization ------------------- *)

\* The formats, in the order of date_formats, in which a date string is valid.
ValidFormats(date_str) ==
    {f \in 1..Len(date_formats) :
        strptime(date_str, date_formats[f].directives, date_formats[f].sep) # NoDate}

\* The calendar date of a date string in the first format in which it is valid.
FirstValidDate(date_str) ==
    LET f == CHOOSE g \in ValidFormats(date_str) : \A h \in ValidFormats(date_str) : g <= h
    IN  strptime(date_str, date_formats[f].directives, date_formats[f].sep)

\* YYYY-MM-DD: four year digits, two month digits, two day digits.
IsoDate(date) ==
    ZeroPad(NatToStr(date.year), 4) \o "-" \o ZeroPad(NatToStr(date.month), 2)
        \o "-" \o ZeroPad(NatToStr(date.day), 2)

\* C14: a date string valid in one of the four formats is normalized to the
\* calendar date of the first format in which it is valid, written YYYY-MM-DD
\* with a four-digit year and zero-padded month and day.
C14_DateNormalized ==
    (call_value # Pending /\ ValidFormats(call_args[1]) # {})
        => /\ call_value.value = IsoDate(FirstValidDate(call_args[1]))
           /\ Len(call_value.value) = 10

(* ------------- claims on the result of the document processor ---------- *)

\* DocumentProcessorAgent.process has returned doc_result.
ProcessReturned == doc_result # NoDocResult

DiagnosticKeys == {"lines_found", "successfully_parsed", "parse_success_rate",
                   "categorized_deterministically", "needs_llm"}

CountsAgree(r) ==
    /\ r.parsing_stats.successfully_parsed <= r.parsing_stats.lines_found
    /\ r.parsing_stats.categorized_deterministically + r.parsing_stats.needs_llm
         = r.parsing_stats.successfully_parsed
    /\ r.parsing_stats.successfully_parsed = Len(r.transactions)

\* C15: every result of DocumentProcessorAgent.process with success=true has
\* a transactions list and the five diagnostics, with successfully_parsed <=
\* lines_found and categorized_deterministically + needs_llm =
\* successfully_parsed = the number of transactions; every result with
\* success=false has an error reason.
C15_ResultContract ==
    ProcessReturned =>
        IF doc_result.success
        THEN /\ "transactions" \in DOMAIN doc_result
             /\ "parsing_stats" \in DOMAIN doc_result
             /\ DiagnosticKeys \subseteq DOMAIN doc_result.parsing_stats
             /\ CountsAgree(doc_result)
        ELSE "error" \in DOMAIN doc_result /\ doc_result.error # NoKey

\* No line of the text gives a transaction: the filter keeps none, or no
\* pattern extracts a transaction from a kept line.
NoTransactionFound(lines) ==
    \A i \in 1..Len(lines) :
        \/ ~keeps_line(strip(lines[i]))
        \/ \A now \in Todays, year_padded \in BOOLEAN :
              _parse_single_transaction(strip(lines[i]), now, year_padded) = None

\* C16: DocumentProcessorAgent.process returns a result for every document: a
\* failure with an error reason when the document cannot be opened, the
\* failure 'No text in PDF' when its text is blank, and success=true whenever
\* text was extracted, with an empty transactions list when no transaction is
\* found in it.
C16_FailureOrEmptySuccess ==
    ProcessReturned =>
        /\ {"success", "transactions"} \subseteq DOMAIN doc_result
        /\ ~pdf.open_ok =>
              ~doc_result.success /\ doc_result.error \notin {NoKey, ""}
        /\ (pdf.open_ok /\ BlankText(pdf.lines)) =>
              ~doc_result.success /\ doc_result.error = "No text in PDF"
        /\ (pdf.open_ok /\ ~BlankText(pdf.lines)) =>
              /\ doc_result.success
              /\ "error" \notin DOMAIN doc_result
              /\ NoTransactionFound(pdf.lines) => doc_result.transactions = <<>>

C16_Witness ==
    /\ ProcessReturned
    /\ pdf.open_ok /\ ~BlankText(pdf.lines) /\ NoTransactionFound(pdf.lines)
    /\ doc_result.success /\ doc_result.transactions = <<>>

(* --------------------- claims on the counters of a run ----------------- *)

\* The calls and the cost ContentAnalyzerAgent.process made in this analysis:
\* llm_reply is the answer to its call, NoReply when it made none.
OwnClassifierCalls == IF llm_reply = NoReply THEN 0 ELSE 1

OwnClassifierCost == IF llm_reply = NoReply THEN 0 ELSE make_call_cost(0, llm_reply)

\* The insights call of this analysis was counted: it gave insights.
InsightsCounted == IF result.ai_insights \notin {NoInsights, <<>>} THEN 1 ELSE 0

\* C17: every analysis starts with the call counter, the cost counter and the
\* three llm_calls_made at zero, whatever the earlier analyses on the same
\* analyzer left, so that the counters hold the calls and cost of this
\* analysis alone when the classifier has run, and the total_llm_calls,
\* estimated_cost and agent_breakdown it reports count this analysis only.
C17_CountersOfThisRunOnly ==
    /\ pc \in {"agent1", "agent2"} =>
          call_count = 0 /\ total_cost = 0 /\ llm_calls_made = NoCalls
    /\ pc = "agent3" =>
          /\ call_count = OwnClassifierCalls
          /\ call_count = process_calls(ProcessInput)
          /\ total_cost = OwnClassifierCost
          /\ llm_calls_made = <<0, OwnClassifierCalls, 0>>
    /\ (pc = "done" /\ result.success) =>
          /\ result.agent_breakdown =
               <<0, process_calls_made(ProcessInput), InsightsCounted>>
          /\ result.total_llm_calls = process_calls_made(ProcessInput) + InsightsCounted
          /\ result.estimated_cost >= CallCost * InsightsCounted
          /\ result.estimated_cost
               <= CallCost * (process_calls(ProcessInput)
                              + insights_calls(generate_ai_insights))

\* A later analysis that made calls reports fewer calls than the session has
\* seen: the earlier analyses made calls too.
C17_Witness ==
    /\ pc = "done" /\ result.success
    /\ session_state.analyses_performed = MaxRuns
    /\ result.total_llm_calls >= 1
    /\ session_state.total_llm_calls > result.total_llm_calls
    /\ session_state.total_cost > result.estimated_cost

\* What call i reports counts its own calls and cost only.
ReportsOwnCalls(i) ==
    LET own == invocations[i]
        counted == IF own.result.ai_insights \notin {NoInsights, <<>>} THEN 1 ELSE 0
    IN  /\ own.result.total_llm_calls
             = process_calls_made(own.doc_result.transactions) + counted
        /\ own.result.estimated_cost >= CallCost * counted
        /\ own.result.estimated_cost
             <= CallCost * (process_calls(own.doc_result.transactions)
                            + insights_calls(own.generate_ai_insights))

\* C18: when two calls of analyze_statement on the same analyzer interleave,
\* the total_llm_calls and estimated_cost each one reports are the calls and
\* the cost of that call alone, whatever the other resets or adds.
C18_PerInvocationCounters ==
    \A i \in Invocations :
        (invocations[i].pc = "done" /\ invocations[i].result.success) => ReportsOwnCalls(i)

(* ------------------- claims on the routing of a run -------------------- *)

ValidationPassed == _validate_input(pdf.file) = NoKey

\* The Document Processor succeeded with a number of transactions that
\* analyze_statement accepts.
CountAccepted ==
    /\ ProcessReturned /\ doc_result.success
    /\ Len(doc_result.transactions) \in 1..MaxTransactions

\* Neither the Content Analyzer nor the Analysis Generator ran, and nothing
\* was asked of the external service.
NoLaterStage ==
    /\ call_count = 0 /\ total_cost = 0 /\ llm_calls_made = NoCalls
    /\ llm_reply = NoReply
    /\ transactions \in {<<>>, doc_result.transactions}

StageInvariant ==
    /\ pc = "agent1" => ValidationPassed /\ ~ProcessReturned /\ NoLaterStage
    /\ pc = "agent2" => ValidationPassed /\ CountAccepted /\ NoLaterStage
    /\ pc = "agent3" => ValidationPassed /\ CountAccepted
    /\ pc = "done" =>
          /\ result.success <=> (ValidationPassed /\ CountAccepted)
          /\ ~result.success => NoLaterStage
          /\ ~ValidationPassed => ~ProcessReturned

\* The stages follow one another; a run ends without its later stages only
\* from validation or from the Document Processor.
StageOrder ==
    \/ pc' = pc
    \/ <<pc, pc'>> \in {<<"idle", "agent1">>, <<"agent1", "agent2">>, <<"agent2", "agent3">>,
                        <<"agent3", "done">>, <<"idle", "done">>, <<"agent1", "done">>}

\* C19: analyze_statement ends with success=false, the Content Analyzer and
\* the Analysis Generator not invoked and no external call made, when the
\* Document Processor gives no transaction or more than 500, and goes on to
\* categorization for every count from 1 to 500; the stages run in the order
\* validation, Document Processor, Content Analyzer, Analysis Generator, each
\* one only when every earlier one passed.
C19_CountRouting == []StageInvariant /\ [][StageOrder]_vars

\* A statement of 501 transactions is refused after the Document Processor.
C19_Witness ==
    /\ pc = "done" /\ ~result.success
    /\ ProcessReturned /\ doc_result.success
    /\ Len(doc_result.transactions) = MaxTransactions + 1
    /\ NoLaterStage

(* ------------- claims on re-running the categorization ----------------- *)

\* again is what _apply_basic_categorization gave when run on txns again:
\* every transaction kept its category, confidence and source.
KeptByRerun(txns, again) ==
    /\ Len(again) = Len(txns)
    /\ \A i \in 1..Len(txns) :
          /\ again[i].category = txns[i].category
          /\ again[i].confidence = txns[i].confidence
          /\ again[i].source = txns[i].source

\* Categorizing the description of a transaction the merchant database
\* categorized gives again the pair the transaction carries.
SamePairAgain(txn) ==
    txn.source = "deterministic" /\ txn.category # "uncategorized"
        => categorize_transaction(txn.description) = <<txn.category, txn.confidence>>

\* C20: running the deterministic categorization again on the transactions of
\* a run, categorized by the merchant database or by the classifier and its
\* fallback, changes no category, confidence or source; and categorizing the
\* description of a transaction a second time gives the same (category,
\* confidence) as the first time.
C20_RerunChangesNothing ==
    /\ KeptByRerun(transactions, _apply_basic_categorization(transactions))
    /\ \A i \in 1..Len(transactions) : SamePairAgain(transactions[i])
    /\ ProcessReturned =>
          KeptByRerun(doc_result.transactions,
                      _apply_basic_categorization(doc_result.transactions))

\* A run ended with a transaction the merchant database categorized, one the
\* classifier categorized and one the fallback categorized.
C20_Witness ==
    /\ pc = "done" /\ result.success
    /\ \E i \in 1..Len(transactions) :
          transactions[i].source = "deterministic" /\ transactions[i].category # "uncategorized"
    /\ \E i \in 1..Len(transactions) :
          transactions[i].source \in {"llm", "fallback"}
          /\ transactions[i].category # "uncategorized"
    /\ _apply_basic_categorization(transactions) = transactions

(* ------------------ claims on what the steps leave behind -------------- *)

\* The records of the list given are as they were at the call.
GivenUntouched(call) ==
    /\ Len(call.given_after) = Len(call.given)
    /\ \A i \in 1..Len(call.given) :
          /\ call.given_after[i].category = call.given[i].category
          /\ call.given_after[i].confidence = call.given[i].confidence
          /\ call.given_after[i].source = call.given[i].source
          /\ call.given_after[i].reasoning = call.given[i].reasoning

\* C21: the deterministic categorization step and the classifier's
\* categorization steps do not mutate their input: each returns a new
\* collection and leaves category, confidence, source and reasoning of the
\* records of the list it was given as they were before the call.
C21_InputNotMutated ==
    call_value # Pending =>
        ~call_value.value.same_list /\ GivenUntouched(call_value.value)

(* ------------------ claims on the transaction parser ------------------- *)

\* The shape of the line matches at least one format pattern.
MatchesSomePattern(line) ==
    \E p \in 1..Len(patterns) : re_search(patterns[p].regex, line) # <<>>

\* C22: the parser gives exactly one transaction, in order, for every
\* candidate line whose shape matches a format pattern, with today's date
\* when the date does not parse and the amount 0 when the amount does not,
\* and none for a line that matches no pattern; such a line does not end the
\* parsing of the lines after it, and parsed / candidate lines is in [0,1].
C22_OnePerMatchingLine ==
    call_value # Pending =>
        /\ Len(call_value.value) = Len(SelectSeq(call_args, MatchesSomePattern))
        /\ Len(call_value.value) <= Len(call_args)
        /\ \A k \in 1..Len(call_value.value) :
              /\ call_value.value[k].original_line
                   = SelectSeq(call_args, MatchesSomePattern)[k]
              /\ StartsWith(call_value.value[k].original_line, "02/30/2024")
                   => \E now \in Todays : call_value.value[k].date = strftime(now, TRUE)
              /\ StartsWith(call_value.value[k].original_line, "02/04/2024")
                   => call_value.value[k].amount = 0

\* A line of no pattern's shape stood between two that parsed, one of them
\* with a date that does not parse.
C22_Witness ==
    /\ call_value # Pending
    /\ Len(call_args) = 3 /\ Len(call_value.value) = 2
    /\ ~MatchesSomePattern(call_args[2])
    /\ StartsWith(call_args[3], "02/30/2024")
    /\ call_value.value[2].original_line = call_args[3]

(* --------------- claims on confidence and provenance ------------------- *)

\* The tiers of _calculate_confidence, in hundredths.
DeterministicTiers == {75, 80, 90, 95}

\* The confidence of txn fits its source; reply is what the classifier's call
\* met.
ConfidenceFitsSource(txn, reply) ==
    /\ txn.confidence >= 0 /\ txn.confidence <= 100
    /\ txn.source \in {"deterministic", "llm", "fallback"}
    /\ txn.source = "deterministic" => txn.confidence \in DeterministicTiers
    /\ txn.source = "fallback" =>
          \/ txn.confidence = 30 /\ txn.reasoning = "LLM unavailable"
          \/ txn.confidence = 50 /\ txn.reasoning = "LLM response incomplete"
    /\ txn.source = "llm" =>
          \E j \in 1..Len(reply.body.categorizations) :
              /\ reply.body.categorizations[j].confidence = txn.confidence
              /\ reply.body.categorizations[j].category = txn.category

\* C23: after the whole categorization every transaction's confidence is in
\* [0,1] and fits its source: one of 0.75, 0.80, 0.90, 0.95 for
\* 'deterministic', the fixed confidence of the default applied for
\* 'fallback', the confidence the classifier returned for 'llm'; and before
\* the classifier a transaction has confidence 0.0 exactly when its category
\* is 'uncategorized'.
C23_ConfidenceFitsSource ==
    /\ pc = "agent3" =>
          \A i \in 1..Len(transactions) : ConfidenceFitsSource(transactions[i], llm_reply)
    /\ (pc = "done" /\ result.success) =>
          \A i \in 1..Len(transactions) :
              /\ transactions[i].confidence \in 0..100
              /\ transactions[i].source = "deterministic"
                   => transactions[i].confidence \in DeterministicTiers
              /\ transactions[i].source = "fallback"
                   => transactions[i].confidence \in {30, 50}
    /\ (ProcessReturned /\ doc_result.success) =>
          \A i \in 1..Len(doc_result.transactions) :
              doc_result.transactions[i].confidence = 0
                  <=> doc_result.transactions[i].category = "uncategorized"

\* The classifier has run and left a transaction of each source.
C23_Witness ==
    /\ pc = "agent3"
    /\ \E i, j \in 1..Len(transactions) :
          /\ transactions[i].source = "deterministic" /\ transactions[i].confidence = 95
          /\ transactions[j].source = "llm" /\ transactions[j].confidence = 85


(* ---------------- claims on what leaves the parser --------------------- *)

\* The names of the format patterns.
PatternNames == {patterns[p].name : p \in 1..Len(patterns)}

\* C24: every transaction the parser returns is 'uncategorized' with
\* confidence 0.0 and source 'deterministic', carries the name of a format
\* pattern, and the k-th one returned has the identifier 'txn_k': the
\* identifiers are unique and without gaps whatever lines were dropped.
C24_ParserDefaultsAndIds ==
    call_value # Pending =>
        /\ \A k \in 1..Len(call_value.value) :
              /\ call_value.value[k].category = "uncategorized"
              /\ call_value.value[k].confidence = 0
              /\ call_value.value[k].source = "deterministic"
              /\ call_value.value[k].pattern_used \in PatternNames
              /\ call_value.value[k].transaction_id = "txn_" \o NatToStr(k)
        /\ \A j, k \in 1..Len(call_value.value) :
              call_value.value[j].transaction_id = call_value.value[k].transaction_id
                  => j = k

\* The first candidate line was dropped and the two after it parsed: they
\* are txn_1 and txn_2.
C24_Witness ==
    /\ call_value # Pending
    /\ Len(call_args) = 3 /\ Len(call_value.value) = 2
    /\ ~MatchesSomePattern(call_args[1])
    /\ call_value.value[1].original_line = call_args[2]
    /\ call_value.value[1].transaction_id = "txn_1"
    /\ call_value.value[2].transaction_id = "txn_2"


(* ------------------- claims on the cleaned description ----------------- *)

\* The description has no whitespace at either end, no run of two or more
\* whitespace characters and no reference code: each step of the cleanup
\* leaves it as it is.
FullyCleaned(description) ==
    /\ strip(description) = description
    /\ sub_spaces(description) = description
    /\ sub_reference_codes(description) = description

\* C25: the description of every transaction the parser returns is fully
\* cleaned, also where a reference code stood between two words.
C25_DescriptionFullyCleaned ==
    call_value # Pending =>
        \A k \in 1..Len(call_value.value) : FullyCleaned(call_value.value[k].description)


(* ---------------------- claims on the call counts ---------------------- *)

\* C26: in every successful result total_llm_calls, the sum of the agents'
\* llm_calls_made, equals LLMInterface.call_count at the end of the run, the
\* number of make_call invocations, also when a call failed or gave nothing.
C26_ReportedCallsAreMakeCalls ==
    (pc = "done" /\ result.success) => result.total_llm_calls = call_count


(* -------------- claims on the list the Content Analyzer returns --------- *)

\* C27: the list ContentAnalyzerAgent.process returns has the transactions
\* it was given, as many and in the order given: a transaction that was
\* uncategorized and stood before a categorized one still stands before it.
C27_InputOrderPreserved ==
    pc = "agent3" =>
        /\ Len(transactions) = Len(ProcessInput)
        /\ \A k \in 1..Len(ProcessInput) :
              transactions[k].transaction_id = ProcessInput[k].transaction_id


\* The transaction the returned list has for txn, if any, has the category,
\* confidence, source and reasoning of txn.
ReturnedAsGiven(txn, returned) ==
    \E j \in 1..Len(returned) :
        /\ returned[j].transaction_id = txn.transaction_id
        /\ returned[j].category = txn.category
        /\ returned[j].confidence = txn.confidence
        /\ returned[j].source = txn.source
        /\ returned[j].reasoning = txn.reasoning

\* C28: ContentAnalyzerAgent.process leaves every transaction that was
\* categorized before the call as it was in category, confidence, source and
\* reasoning, whatever its make_call met.
C28_CategorizedLeftAlone ==
    pc = "agent3" =>
        \A i \in 1..Len(ProcessInput) :
            ProcessInput[i].category # "uncategorized"
                => ReturnedAsGiven(ProcessInput[i], transactions)

\* A categorized transaction stood in a list with an uncategorized one, and
\* the call for the batch failed.
C28_Witness ==
    /\ pc = "agent3"
    /\ llm_reply.kind = "api_error"
    /\ ProcessKept # <<>> /\ ProcessBatch # <<>>
    /\ \E j \in 1..Len(transactions) : transactions[j].source = "fallback"


(* --------------------- claims on the failed analyses ------------------- *)

\* The step ends an analysis with a success=true result.
SuccessfulEnd == pc = "agent3" /\ pc' = "done" /\ result'.success

\* What a step does to session_state: the end of a successful analysis adds
\* one analysis and the total_llm_calls its result reports, every other step
\* leaves session_state as it is.
SessionCountsSuccesses ==
    IF SuccessfulEnd
    THEN /\ session_state'.analyses_performed = session_state.analyses_performed + 1
         /\ session_state'.total_llm_calls
              = session_state.total_llm_calls + result'.total_llm_calls
    ELSE session_state' = session_state

\* C29: a success=false result reports total_llm_calls = 0 and
\* estimated_cost = 0.0 and its run made no external call and left
\* session_state as it was; over any sequence of runs analyses_performed
\* counts the successful runs and session_state.total_llm_calls sums the
\* totals they reported.
C29_FailedRunsLeaveNoTrace ==
    /\ []((pc = "done" /\ ~result.success) =>
            /\ result.total_llm_calls = 0
            /\ result.estimated_cost = 0
            /\ call_count = 0 /\ total_cost = 0
            /\ llm_calls_made = NoCalls)
    /\ [][SessionCountsSuccesses]_vars

\* An analysis failed on an analyzer whose earlier analysis succeeded with
\* an external call.
C29_Witness ==
    /\ pc = "done" /\ ~result.success
    /\ session_state.analyses_performed = 1
    /\ session_state.total_llm_calls >= 1


(* ------------------ claims on the order of the patterns ---------------- *)

\* The shape of pattern p matches the line.
PatternMatches(p, line) == re_search(patterns[p].regex, line) # <<>>

\* C30: the patterns are tried in the order Chase, Wells Fargo, Generic and
\* the first whose shape matches the line gives the transaction; a line the
\* Generic pattern matches is matched by the Chase pattern too, so every
\* parsed transaction is tagged 'Chase Format' or 'Wells Fargo Format'.
C30_FirstPatternWins ==
    /\ <<patterns[1].name, patterns[2].name, patterns[3].name>>
         = <<"Chase Format", "Wells Fargo Format", "Generic Format">>
    /\ parse_line # NoKey => (PatternMatches(3, parse_line) => PatternMatches(1, parse_line))
    /\ (parse_result # Pending /\ parse_result # None) =>
          /\ \E p \in 1..Len(patterns) :
                /\ PatternMatches(p, parse_line)
                /\ \A q \in 1..(p - 1) : ~PatternMatches(q, parse_line)
                /\ parse_result.pattern_used = patterns[p].name
          /\ parse_result.pattern_used \in {"Chase Format", "Wells Fargo Format"}

\* A line of the Generic shape was parsed, by the Chase pattern.
C30_Witness ==
    /\ parse_result # Pending /\ parse_result # None
    /\ PatternMatches(3, parse_line)
    /\ parse_result.pattern_used = "Chase Format"

====
